---- MODULE Spec2Model ----
(***************************************************************************)
(* A model of the pax runtime: the per-tick render-tree traversal of       *)
(* pax-core/src/engine.rs (expansion, mount bookkeeping, the per-tick      *)
(* expanded-node cache), its ray caster, and the native-patch listeners of *)
(* the pax-std form controls.                                              *)
(***************************************************************************)
EXTENDS Integers, Sequences, FiniteSets, TLC

(***************************************************************************)
(* Bounds of the model.                                                    *)
(***************************************************************************)
\* largest number of items a Repeat's data source holds
MaxRepeat == 2
\* number of ticks explored
MaxFrames == 2
\* largest number of instances flagged for unmount between two ticks
MaxMarked == 1
\* largest cache a ray is cast against (the hit pattern is an input per node)
MaxRayCache == 5
\* largest number of render contexts the host starts with
MaxLayers == 2
\* largest viewport side, in hundreds of pixels
MaxViewport == 2
\* largest translation of a node, in pixels
MaxOffset == 1
\* largest number of properties one node updates
MaxProperties == 3
\* largest number of handlers a node registers for one event
MaxHandlers == 2
\* largest number of ids one registry mints
MaxMinted == 3
\* largest number of frames on the stack when adoptees are looked up
MaxStack == 2
\* largest index an adoptee is looked up at
MaxIndex == 3
\* largest number of commands the manifest editor executes
MaxCommands == 3

\* the manifest versions an editor is followed through
MaxVersion == 5

VARIABLES
    tree,                       \* the instance tree (immutable after construction)
    repeat_count,               \* per Repeat node: length of its data source
    frames_elapsed,             \* PaxEngine.frames_elapsed
    repeat_expanded_node_cache, \* InstanceRegistry.repeat_expanded_node_cache
    mounted_set,                \* InstanceRegistry.mounted_set
    marked_for_unmount_set,     \* InstanceRegistry.marked_for_unmount_set
    stack,                      \* Runtime.stack
    events,                     \* lifecycle calls made by the last operation, in order
    prev_mounted,               \* mounted_set as it was when the last operation began
    ray,                        \* what the last operation returned, if it was a ray cast
    aborted,                    \* a panic has unwound the engine
    properties,                 \* per native node: computed_tab bounds/transform and its properties
    native_listeners,           \* per id_chain with a native_message_listener: its last_patch
    native_message_queue,       \* Runtime's native message queue
    native_render_queue,        \* the messages the last operation returned, if it was a tick
    evaluated,                  \* per id_chain: the field values its listener last saw
    native_phase,               \* per id_chain: where its messages stand in Create/Update/Delete
    rcs,                        \* number of render contexts the host passes to tick
    layer_info,                 \* the LayerInfo the last operation ended with, if it was a tick
    viewport_tab,               \* PaxEngine.viewport_tab.bounds
    layout,                     \* per instance: its size and its placement properties
    expression_table,           \* ExpressionTable: per vtable id, the value its expression yields
    node_properties,            \* the properties of the node whose properties are being updated
    property_cursor,            \* the property the update has come to
    node_scope,                 \* the scope of the node whose properties are being updated
    handlers,                   \* per instance: the handlers its registry holds, per event
    next_id,                    \* InstanceRegistry.next_id
    minted,                     \* the ids mint_id has returned, in order
    rendering_children,         \* per slot-content node: the children it renders at present
    adoptee,                    \* what the last operation returned, if it was an adoptee lookup
    undo_stack,                 \* PaxManifestORM.undo_stack
    redo_stack,                 \* PaxManifestORM.redo_stack
    next_command_id,            \* PaxManifestORM.next_command_id
    manifest,                   \* the commands the manifest has applied
    manifest_version,           \* PaxManifestORM.manifest_version
    reload_queue,               \* PaxManifestORM.reload_queue
    undone                      \* the commands the last operation undid, in order

evars == <<tree, repeat_count, frames_elapsed, repeat_expanded_node_cache,
           mounted_set, marked_for_unmount_set, stack, events, prev_mounted,
           ray, aborted>>

nvars == <<properties, native_listeners, native_message_queue,
           native_render_queue, evaluated, native_phase>>

lvars == <<rcs, layer_info>>

tvars == <<viewport_tab, layout>>

pvars == <<expression_table, node_properties, property_cursor, node_scope>>

hvars == <<handlers>>

rvars == <<next_id, minted, rendering_children, adoptee>>

ovars == <<undo_stack, redo_stack, next_command_id, manifest, manifest_version,
           reload_queue, undone>>

vars == <<evars, nvars, lvars, tvars, pvars, hvars, rvars, ovars>>

(***************************************************************************)
(* Instance trees.  A node is addressed by its instance id; `children` is  *)
(* the declared order.  A Repeat's rendering children are one RepeatItem   *)
(* component per datum, all sharing the Repeat's template.                 *)
(***************************************************************************)
Node(kind, children, item, clipping, registry) ==
    [kind |-> kind, children |-> children, item |-> item,
     clipping |-> clipping, registry |-> registry]

Leaf == Node("Primitive", <<>>, 0, FALSE, FALSE)

\* root component alone
TreeRootOnly == (0 :> Node("Component", <<>>, 0, FALSE, TRUE))

\* root [A]
TreeOneChild ==
    (0 :> Node("Component", <<1>>, 0, FALSE, TRUE)) @@ (1 :> Leaf)

\* root [A, B]
TreeTwoSiblings ==
    (0 :> Node("Component", <<1, 2>>, 0, FALSE, TRUE)) @@ (1 :> Leaf) @@ (2 :> Leaf)

\* root [A, B, C]
TreeThreeSiblings ==
    (0 :> Node("Component", <<1, 2, 3>>, 0, FALSE, FALSE))
    @@ (1 :> Leaf) @@ (2 :> Leaf) @@ (3 :> Leaf)

\* root [Z, Frame(clipping) [Group [X]]]
TreeClip ==
    (0 :> Node("Component", <<1, 2>>, 0, FALSE, FALSE))
    @@ (1 :> Leaf)
    @@ (2 :> Node("Primitive", <<3>>, 0, TRUE, FALSE))
    @@ (3 :> Node("Primitive", <<4>>, 0, FALSE, TRUE))
    @@ (4 :> Leaf)

\* root [Repeat(1) { Repeat(3) { L(5) } }]; 2 and 4 are the RepeatItem components
TreeNestedRepeat ==
    (0 :> Node("Component", <<1>>, 0, FALSE, FALSE))
    @@ (1 :> Node("Repeat", <<3>>, 2, FALSE, FALSE))
    @@ (2 :> Node("RepeatItem", <<3>>, 0, FALSE, FALSE))
    @@ (3 :> Node("Repeat", <<5>>, 4, FALSE, FALSE))
    @@ (4 :> Node("RepeatItem", <<5>>, 0, FALSE, FALSE))
    @@ (5 :> Node("Primitive", <<>>, 0, FALSE, TRUE))

\* root [G1 [X], G2 [X]]: the same instance X is a rendering child of two
\* parents (two slots resolving to the same adoptee)
TreeShared ==
    (0 :> Node("Component", <<1, 2>>, 0, FALSE, FALSE))
    @@ (1 :> Node("Primitive", <<3>>, 0, FALSE, FALSE))
    @@ (2 :> Node("Primitive", <<3>>, 0, FALSE, FALSE))
    @@ (3 :> Leaf)

\* root [Component(1) [A], Repeat(3) { B(5) }]
TreeMixed ==
    (0 :> Node("Component", <<1, 3>>, 0, FALSE, TRUE))
    @@ (1 :> Node("Component", <<2>>, 0, FALSE, TRUE))
    @@ (2 :> Leaf)
    @@ (3 :> Node("Repeat", <<5>>, 4, FALSE, FALSE))
    @@ (4 :> Node("RepeatItem", <<5>>, 0, FALSE, FALSE))
    @@ (5 :> Leaf)

\* root [Dropdown]
TreeDropdown ==
    (0 :> Node("Component", <<1>>, 0, FALSE, FALSE))
    @@ (1 :> Node("Dropdown", <<>>, 0, FALSE, FALSE))

\* root [Slider]
TreeSlider ==
    (0 :> Node("Component", <<1>>, 0, FALSE, FALSE))
    @@ (1 :> Node("Slider", <<>>, 0, FALSE, FALSE))

NativeTrees == {TreeDropdown, TreeSlider}

\* E [A]: the traversal enters at a node that has a handler registry and
\* pushes no stack frame
TreeUnframed ==
    (0 :> Node("Primitive", <<1>>, 0, FALSE, TRUE)) @@ (1 :> Leaf)

\* root [A [B]]: the root and B have a handler registry, A has none
TreeBubble ==
    (0 :> Node("Component", <<1>>, 0, FALSE, TRUE))
    @@ (1 :> Node("Primitive", <<2>>, 0, FALSE, FALSE))
    @@ (2 :> Node("Primitive", <<>>, 0, FALSE, TRUE))

DispatchTrees == {TreeBubble, TreeClip, TreeOneChild}

\* root [P [C]]
TreeLayout ==
    (0 :> Node("Component", <<1>>, 0, FALSE, FALSE))
    @@ (1 :> Node("Primitive", <<2>>, 0, FALSE, FALSE))
    @@ (2 :> Leaf)

\* root [A, Dropdown, B]: a native control between two drawing primitives
TreeLayers ==
    (0 :> Node("Component", <<1, 2, 3>>, 0, FALSE, FALSE))
    @@ (1 :> Leaf)
    @@ (2 :> Node("Dropdown", <<>>, 0, FALSE, FALSE))
    @@ (3 :> Leaf)

LayerTrees == {TreeTwoSiblings, TreeDropdown, TreeLayers}

Trees == {TreeRootOnly, TreeOneChild, TreeTwoSiblings, TreeThreeSiblings,
          TreeClip, TreeNestedRepeat, TreeShared, TreeMixed}

RootId == 0

RepeatIds(t) == {i \in DOMAIN t : t[i].kind = "Repeat"}

NativeIds(t) == {i \in DOMAIN t : t[i].kind \in {"Dropdown", "Slider"}}

\* ids that the template declares (RepeatItem components are synthesised)
DeclaredIds(t) == {i \in DOMAIN t : t[i].kind # "RepeatItem"}

(***************************************************************************)
(* Runtime stack.  A Component (and each RepeatItem component) pushes one  *)
(* frame while its properties are computed and pops it in did_render, so a *)
(* frame lives while the traversal is inside that subtree.                 *)
(***************************************************************************)
StackFrame(owner, repeat_index) == [owner |-> owner, repeat_index |-> repeat_index]

\* faulty variant: the frame at the bottom of the stack is returned
peek_stack_frame_bottom(stk) == IF Len(stk) > 0 THEN <<stk[1]>> ELSE <<>>

peek_stack_frame(stk) == IF Len(stk) > 0 THEN <<stk[Len(stk)]>> ELSE <<>>

push_stack_frame(stk, frame) == Append(stk, frame)

pop_stack_frame(stk) == IF Len(stk) > 0 THEN SubSeq(stk, 1, Len(stk) - 1) ELSE stk

\* the index of every RepeatItem frame, bottom of the stack first
get_list_of_repeat_indicies_from_stack(stk) ==
    LET F[k \in 0..Len(stk)] ==
            IF k = 0 THEN <<>>
            ELSE IF stk[k].repeat_index >= 0
                 THEN Append(F[k - 1], stk[k].repeat_index)
                 ELSE F[k - 1]
    IN F[Len(stk)]

\* faulty variant: only the innermost repeat index is kept
get_id_chain_innermost_only(stk, id) ==
    LET indices == get_list_of_repeat_indicies_from_stack(stk)
    IN IF Len(indices) = 0 THEN <<id>> ELSE <<id, indices[Len(indices)]>>

get_id_chain(stk, id) ==
    <<id>> \o get_list_of_repeat_indicies_from_stack(stk)

(***************************************************************************)
(* Per-node callbacks of the RenderNode trait.  A node reference is        *)
(* <<instance id, repeat index>>, the index being -1 except for the        *)
(* RepeatItem components a Repeat synthesises.                             *)
(***************************************************************************)
get_instance_id(ref) == ref[1]

get_handler_registry(ref) == tree[ref[1]].registry

is_clipping(ref) == tree[ref[1]].clipping

get_rendering_children(ref) ==
    LET n == tree[ref[1]]
    IN IF n.kind = "Repeat"
       THEN [i \in 1..repeat_count[ref[1]] |-> <<n.item, i - 1>>]
       ELSE [k \in 1..Len(n.children) |-> <<n.children[k], -1>>]

Log(st, ev, chain) ==
    [st EXCEPT !.events = Append(@, [ev |-> ev, chain |-> chain])]

compute_properties(st, ref) ==
    LET n == tree[ref[1]]
        pushed == IF n.kind \in {"Component", "RepeatItem"}
                  THEN push_stack_frame(st.stack, StackFrame(ref[1], ref[2]))
                  ELSE st.stack
        computed == IF ref[1] \in DOMAIN st.properties
                    THEN [st EXCEPT !.properties[ref[1]] = st.recomputed[ref[1]]]
                    ELSE st
    IN Log([computed EXCEPT !.stack = pushed], "compute_properties",
           get_id_chain(pushed, ref[1]))

handle_did_render(st, ref) ==
    LET n == tree[ref[1]]
        logged == Log(st, "did_render", get_id_chain(st.stack, ref[1]))
    IN IF n.kind \in {"Component", "RepeatItem"}
       THEN [logged EXCEPT !.stack = pop_stack_frame(@)]
       ELSE logged

(***************************************************************************)
(* InstanceRegistry                                                        *)
(***************************************************************************)
is_mounted(mounted, id_chain) == id_chain \in mounted

mark_mounted(mounted, id_chain) == mounted \cup {id_chain}

add_to_repeat_expanded_node_cache(cache, repeat_expanded_node) ==
    Append(cache, repeat_expanded_node)

RepeatExpandedNode(id_chain, parent, ref, frame, tab) ==
    [id_chain |-> id_chain, parent_repeat_expanded_node |-> parent,
     instance_node |-> ref, stack_frame |-> frame, tab |-> tab]

(***************************************************************************)
(* Native form controls (pax-std forms).  A control's observable inputs    *)
(* are its computed bounds and transform and its declared properties.      *)
(* handle_mount sends the creation message and installs, on the expanded   *)
(* node, a listener that diffs the inputs against the patch it last sent;  *)
(* the engine evaluates the listener once per visit; handle_unmount drops  *)
(* the listener and sends the deletion message.  An absent Option is <<>>, *)
(* Some(v) is <<v>>.  Colours, styles, transforms and option lists are     *)
(* opaque values compared for equality.                                    *)
(***************************************************************************)
Pixels(n) == [unit |-> "Pixels", n |-> n]

Percent(n) == [unit |-> "Percent", n |-> n]

Combined(pix, per) == [unit |-> "Combined", n |-> pix, per |-> per]

\* Size::get_pixels
get_pixels(size, parent) ==
    IF size.unit = "Pixels" THEN size.n ELSE (parent * size.n) \div 100

\* Dropdown::default, under bounds the layout has yet to compute
DropdownDefault ==
    [width |-> 100, height |-> 0, transform |-> 0, style |-> 0, stroke_color |-> 0,
     stroke_width |-> Pixels(1), background |-> 0, selected_id |-> 0,
     border_radius |-> 0, options |-> 0]

\* Slider::default, under bounds the layout has yet to compute
SliderDefault ==
    [width |-> 100, height |-> 0, transform |-> 0, accent |-> 0, value |-> 0,
     step |-> 0, min |-> 0, max |-> 0, border_radius |-> 0, background |-> 0]

default_properties(kind) ==
    IF kind = "Dropdown" THEN DropdownDefault ELSE SliderDefault

\* the values an input ranges over
InputValues(field) ==
    IF field = "width" THEN {100, 200}
    ELSE IF field = "stroke_width" THEN {Pixels(1), Pixels(2), Percent(1)}
    ELSE {0, 1}

\* what one recomputation of the properties and the layout may produce: the
\* inputs as they are, or with one input of one control changed
recomputations(props) ==
    {props} \cup
    UNION {UNION {{[props EXCEPT ![i][f] = v] : v \in InputValues(f)} :
                     f \in DOMAIN props[i]} :
              i \in DOMAIN props}

\* the empty function
NoEntries == [c \in {} |-> <<>>]

with_entry(map, key, value) ==
    [c \in DOMAIN map \cup {key} |-> IF c = key THEN value ELSE map[c]]

without_entry(map, key) == [c \in DOMAIN map \ {key} |-> map[c]]

\* common::patch_if_needed
patch_if_needed(old_state, new_value) ==
    IF old_state # <<new_value>>
    THEN [old_state |-> <<new_value>>, patch |-> <<new_value>>, updated |-> TRUE]
    ELSE [old_state |-> old_state, patch |-> <<>>, updated |-> FALSE]

\* the fields of DropdownPatch as the listener computes them
dropdown_values(p) ==
    [size_x |-> p.width, size_y |-> p.height, transform |-> p.transform,
     style |-> p.style, stroke_color |-> p.stroke_color,
     stroke_width |-> get_pixels(p.stroke_width, p.width),
     background |-> p.background, selected_id |-> p.selected_id,
     border_radius |-> p.border_radius, options |-> p.options]

\* the fields of SliderPatch as the listener computes them
slider_values(p) ==
    [size_x |-> p.width, size_y |-> p.height, transform |-> p.transform,
     accent |-> p.accent, value |-> p.value, step |-> p.step, min |-> p.min,
     max |-> p.max, border_radius |-> p.border_radius,
     background |-> p.background]

\* XxxPatch { id, ..Default::default() }
default_patch(values) == [f \in DOMAIN values |-> <<>>]

enqueue_native_message(st, message) ==
    [st EXCEPT !.native_message_queue = Append(@, message)]

CreateMessage(prim, id) ==
    [tag |-> "Create", prim |-> prim, id |-> id, occlusion_layer_id |-> 0]

UpdateMessage(prim, id, patch) ==
    [tag |-> "Update", prim |-> prim, id |-> id, patch |-> patch]

DeleteMessage(prim, id) == [tag |-> "Delete", prim |-> prim, id |-> id]

\* faulty variant: the creation message is not sent
dropdown_handle_mount_no_create(st, ref, id) ==
    [st EXCEPT !.native_listeners =
        with_entry(@, id, default_patch(dropdown_values(st.properties[ref[1]])))]

\* DropdownInstance::handle_mount
dropdown_handle_mount(st, ref, id) ==
    [enqueue_native_message(st, CreateMessage("Dropdown", id))
       EXCEPT !.native_listeners =
          with_entry(@, id, default_patch(dropdown_values(st.properties[ref[1]])))]

\* faulty variant: the patch carries every field once any field changed
dropdown_native_message_listener_full(st, ref, id) ==
    LET values == dropdown_values(st.properties[ref[1]])
        old_state == st.native_listeners[id]
        updates == [f \in DOMAIN values |-> patch_if_needed(old_state[f], values[f])]
        patch == [f \in DOMAIN values |-> <<values[f]>>]
        remembered == [st EXCEPT !.native_listeners[id] =
                          [f \in DOMAIN values |-> updates[f].old_state]]
    IN IF \E f \in DOMAIN values : updates[f].updated
       THEN enqueue_native_message(remembered, UpdateMessage("Dropdown", id, patch))
       ELSE remembered

\* the closure DropdownInstance::handle_mount installs
dropdown_native_message_listener(st, ref, id) ==
    LET values == dropdown_values(st.properties[ref[1]])
        old_state == st.native_listeners[id]
        updates == [f \in DOMAIN values |-> patch_if_needed(old_state[f], values[f])]
        patch == [f \in DOMAIN values |-> updates[f].patch]
        remembered == [st EXCEPT !.native_listeners[id] =
                          [f \in DOMAIN values |-> updates[f].old_state]]
    IN IF \E f \in DOMAIN values : updates[f].updated
       THEN enqueue_native_message(remembered, UpdateMessage("Dropdown", id, patch))
       ELSE remembered

\* DropdownInstance::handle_unmount
dropdown_handle_unmount(st, id) ==
    enqueue_native_message(
        [st EXCEPT !.native_listeners = without_entry(@, id)],
        DeleteMessage("Dropdown", id))

\* SliderInstance::handle_mount
slider_handle_mount(st, ref, id) ==
    [enqueue_native_message(st, CreateMessage("Slider", id))
       EXCEPT !.native_listeners =
          with_entry(@, id, default_patch(slider_values(st.properties[ref[1]])))]

\* the closure SliderInstance::handle_mount installs
slider_native_message_listener(st, ref, id) ==
    LET values == slider_values(st.properties[ref[1]])
        old_state == st.native_listeners[id]
        updates == [f \in DOMAIN values |-> patch_if_needed(old_state[f], values[f])]
        patch == [f \in DOMAIN values |-> updates[f].patch]
        remembered == [st EXCEPT !.native_listeners[id] =
                          [f \in DOMAIN values |-> updates[f].old_state]]
    IN IF \E f \in DOMAIN values : updates[f].updated
       THEN enqueue_native_message(remembered, UpdateMessage("Slider", id, patch))
       ELSE remembered

\* SliderInstance::handle_unmount
slider_handle_unmount(st, id) ==
    enqueue_native_message(
        [st EXCEPT !.native_listeners = without_entry(@, id)],
        DeleteMessage("Slider", id))

\* the field values the listener of `ref` computes from the inputs `props`
native_values(ref, props) ==
    IF tree[ref[1]].kind = "Dropdown" THEN dropdown_values(props[ref[1]])
    ELSE slider_values(props[ref[1]])

\* node.handle_did_mount
handle_did_mount(st, ref, id_chain) ==
    IF tree[ref[1]].kind = "Dropdown" THEN dropdown_handle_mount(st, ref, id_chain)
    ELSE IF tree[ref[1]].kind = "Slider" THEN slider_handle_mount(st, ref, id_chain)
    ELSE st

\* node.compute_native_patches: the installed listener, if any, is evaluated
compute_native_patches(st, ref, id_chain) ==
    IF id_chain \notin DOMAIN st.native_listeners THEN st
    ELSE LET seen == [st EXCEPT !.evaluated =
                         with_entry(@, id_chain, native_values(ref, st.properties))]
         IN IF tree[ref[1]].kind = "Dropdown"
            THEN dropdown_native_message_listener(seen, ref, id_chain)
            ELSE slider_native_message_listener(seen, ref, id_chain)

\* node.handle_will_unmount
handle_will_unmount(st, ref, id_chain) ==
    IF tree[ref[1]].kind = "Dropdown" THEN dropdown_handle_unmount(st, id_chain)
    ELSE IF tree[ref[1]].kind = "Slider" THEN slider_handle_unmount(st, id_chain)
    ELSE st

(***************************************************************************)
(* Layout.  Lengths are whole pixels and a viewport side is a multiple of  *)
(* 100 pixels, so that the percentages of the model are exact.  An affine  *)
(* transform is its six coefficients; a rotation is a number of quarter    *)
(* turns, whose sine and cosine are whole.                                 *)
(***************************************************************************)
AffineDefault == <<1, 0, 0, 1, 0, 0>>

\* kurbo: Affine * Affine
affine_mul(m, n) ==
    <<m[1] * n[1] + m[3] * n[2],
      m[2] * n[1] + m[4] * n[2],
      m[1] * n[3] + m[3] * n[4],
      m[2] * n[3] + m[4] * n[4],
      m[1] * n[5] + m[3] * n[6] + m[5],
      m[2] * n[5] + m[4] * n[6] + m[6]>>

affine_translate(x, y) == <<1, 0, 0, 1, x, y>>

TransformAndBounds(transform, bounds) == [transform |-> transform, bounds |-> bounds]

\* Size::evaluate along an axis (1 is X, 2 is Y)
evaluate(size, bounds, axis) == get_pixels(size, bounds[axis])

\* Size::expect_percent, as a factor
expect_percent(size) == size.n \div 100

cos_quarter(turns) ==
    IF turns % 4 = 0 THEN 1 ELSE IF turns % 4 = 2 THEN 0 - 1 ELSE 0

sin_quarter(turns) ==
    IF turns % 4 = 1 THEN 1 ELSE IF turns % 4 = 3 THEN 0 - 1 ELSE 0

\* a Transform2D with every operation present
Transform2D(translate, anchor, scale, skew, rotate) ==
    [translate |-> translate, anchor |-> anchor, scale |-> scale,
     skew |-> skew, rotate |-> rotate]

\* Transform2D::default, whose absent operations are the neutral ones
Transform2DDefault ==
    Transform2D(<<Pixels(0), Pixels(0)>>, <<Pixels(0), Pixels(0)>>,
                <<Percent(100), Percent(100)>>, <<0, 0>>, 0)

\* ComputableTransform::compute_transform2d_matrix, no previous transform
compute_transform2d_matrix(t, node_size, container_bounds) ==
    LET anchor_transform ==
            affine_translate(
                IF t.anchor[1].unit = "Pixels" THEN 0 - t.anchor[1].n
                ELSE IF t.anchor[1].unit = "Percent"
                     THEN 0 - ((node_size[1] * t.anchor[1].n) \div 100)
                     ELSE (0 - t.anchor[1].n)
                          + (0 - ((node_size[1] * t.anchor[1].per) \div 100)),
                IF t.anchor[2].unit = "Pixels" THEN 0 - t.anchor[2].n
                ELSE IF t.anchor[2].unit = "Percent"
                     THEN 0 - ((node_size[2] * t.anchor[2].n) \div 100)
                     ELSE (0 - t.anchor[2].n)
                          + (0 - ((node_size[1] * t.anchor[2].per) \div 100)))
        scale_x == expect_percent(t.scale[1])
        scale_y == expect_percent(t.scale[2])
        skew_x == t.skew[1]
        skew_y == t.skew[2]
        translate_x == evaluate(t.translate[1], container_bounds, 1)
        translate_y == evaluate(t.translate[2], container_bounds, 2)
        cos_theta == cos_quarter(t.rotate)
        sin_theta == sin_quarter(t.rotate)
        a == scale_x * cos_theta - scale_y * skew_x * sin_theta
        b == scale_x * sin_theta + scale_y * skew_x * cos_theta
        c == (0 - scale_y * sin_theta) + scale_x * skew_y * cos_theta
        d == scale_y * cos_theta + scale_x * skew_y * sin_theta
        transform == <<a, b, c, d, translate_x, translate_y>>
    IN affine_mul(affine_mul(transform, anchor_transform), AffineDefault)

\* the size and the placement properties of an instance
NodeLayout(width, height, x, y, rotate) ==
    [width |-> width, height |-> height, x |-> x, y |-> y, rotate |-> rotate,
     anchor |-> <<Pixels(0), Pixels(0)>>, transform |-> Transform2DDefault]

\* a node that fills its container and is not moved
NodeLayoutDefault == NodeLayout(Percent(100), Percent(100), Pixels(0), Pixels(0), 0)

default_layout(t) == [i \in DOMAIN t |-> NodeLayoutDefault]

\* ExpandedNode::get_size_computed
get_size_computed(node, bounds) ==
    <<evaluate(node.width, bounds, 1), evaluate(node.height, bounds, 2)>>

\* faulty variant: the transform of the container is left out
compute_tab_local(node, container_tab) ==
    LET size == get_size_computed(node, container_tab.bounds)
        desugared == Transform2D(<<node.x, node.y>>, node.anchor,
                                 <<Percent(100), Percent(100)>>, <<0, 0>>, node.rotate)
    IN TransformAndBounds(
           affine_mul(compute_transform2d_matrix(desugared, size, container_tab.bounds),
                      compute_transform2d_matrix(node.transform, size,
                                                 container_tab.bounds)),
           size)

\* layout.rs compute_tab
compute_tab(node, container_tab) ==
    LET size == get_size_computed(node, container_tab.bounds)
        node_transform_property_computed ==
            compute_transform2d_matrix(node.transform, size, container_tab.bounds)
        desugared == Transform2D(<<node.x, node.y>>, node.anchor,
                                 <<Percent(100), Percent(100)>>, <<0, 0>>, node.rotate)
        desugared_transform ==
            compute_transform2d_matrix(desugared, size, container_tab.bounds)
    IN TransformAndBounds(
           affine_mul(affine_mul(container_tab.transform, desugared_transform),
                      node_transform_property_computed),
           size)

\* faulty variant: the bounds an earlier tick computed for the container
\* are used where the cache still holds them
container_tab_of_cached(cache, parent) ==
    IF parent = 0
    THEN IF Len(repeat_expanded_node_cache) > 0
         THEN TransformAndBounds(AffineDefault,
                                 repeat_expanded_node_cache[1].tab.bounds)
         ELSE TransformAndBounds(AffineDefault, viewport_tab)
    ELSE cache[parent].tab

\* rtc.transform and rtc.bounds on entry to a node: the viewport for the
\* root, and what its parent accumulated for every other node
container_tab_of(cache, parent) ==
    IF parent = 0 THEN TransformAndBounds(AffineDefault, viewport_tab)
    ELSE cache[parent].tab

\* faulty variant: the context is the one the node visited last left behind
compute_layout_shared_context(st, ref, parent) ==
    compute_tab(layout[ref[1]],
                IF Len(st.cache) = 0 THEN TransformAndBounds(AffineDefault, viewport_tab)
                ELSE st.cache[Len(st.cache)].tab)

\* engine.rs 605-624
compute_layout(st, ref, parent) ==
    compute_tab(layout[ref[1]], container_tab_of(st.cache, parent))

\* the corners of the rectangle of a tab, under its transform
corners(tab) ==
    LET m == tab.transform
        at(x, y) == <<m[1] * x + m[3] * y + m[5], m[2] * x + m[4] * y + m[6]>>
    IN {at(0, 0), at(tab.bounds[1], 0), at(0, tab.bounds[2]),
        at(tab.bounds[1], tab.bounds[2])}

\* TransformAndBounds::intersects, for rectangles whose sides lie along the
\* axes: no axis separates the projections of the two; rectangles that only
\* touch intersect
intersects(tab, other) ==
    \A axis \in {1, 2} :
       ~\/ \A p \in corners(tab), q \in corners(other) : p[axis] < q[axis]
        \/ \A p \in corners(tab), q \in corners(other) : q[axis] < p[axis]

\* PaxEngine.viewport_tab
engine_viewport_tab == TransformAndBounds(AffineDefault, viewport_tab)

(***************************************************************************)
(* Render layers.  One LayerInfo is threaded through the whole traversal;  *)
(* each node updates it with its layer type after its children returned,   *)
(* and its depth is the index of the render context the node draws on.     *)
(***************************************************************************)
\* RenderNode::get_layer_type: the form controls are native, drawing
\* primitives draw on the canvas, containers do not care
get_layer_type(ref) ==
    IF tree[ref[1]].kind \in {"Dropdown", "Slider"} THEN "Native"
    ELSE IF tree[ref[1]].kind = "Primitive" THEN "Canvas"
    ELSE "DontCare"

\* LayerInfo::new
new_layer_info == [depth |-> 0, layer |-> "Canvas"]

\* LayerInfo::update_depth: a change of layer type back to a drawing layer
\* starts a new render layer
update_depth(info, layer) ==
    IF layer = "DontCare" \/ layer = info.layer THEN info
    ELSE [depth |-> IF layer \in {"Canvas", "Scroller"}
                    THEN info.depth + 1 ELSE info.depth,
          layer |-> layer]

get_depth(info) == info.depth

LayerAddMessage(num_layers_to_add) ==
    [tag |-> "LayerAdd", num_layers_to_add |-> num_layers_to_add]

(***************************************************************************)
(* recurse_traverse_render_tree, one visit, split at its comments.  `st`   *)
(* is the engine state the visit mutates; a panic stops everything after   *)
(* it.                                                                     *)
(***************************************************************************)
\* faulty variant: mounted state is keyed on the instance id alone
manage_did_mount_by_instance(st, ref) ==
    IF st.panic THEN st
    ELSE LET id_chain == <<get_instance_id(ref)>>
                         \o get_list_of_repeat_indicies_from_stack(st.stack)
             fired == handle_did_mount(Log(st, "did_mount", id_chain), ref, id_chain)
         IN IF ~is_mounted(st.mounted_set, <<get_instance_id(ref)>>)
            THEN [fired EXCEPT !.mounted_set = mark_mounted(@, <<get_instance_id(ref)>>)]
            ELSE st

\* engine.rs 563-595
manage_did_mount(st, ref) ==
    IF st.panic THEN st
    ELSE LET id_chain == <<get_instance_id(ref)>>
                         \o get_list_of_repeat_indicies_from_stack(st.stack)
             fired == handle_did_mount(Log(st, "did_mount", id_chain), ref, id_chain)
             handled == IF get_handler_registry(ref) /\ peek_stack_frame(st.stack) # <<>>
                        THEN Log(fired, "did_mount_handlers", id_chain)
                        ELSE fired
         IN IF ~is_mounted(st.mounted_set, id_chain)
            THEN [handled EXCEPT !.mounted_set = mark_mounted(@, id_chain)]
            ELSE st

\* engine.rs 626-644
fire_will_render(st, ref) ==
    IF st.panic THEN st
    ELSE LET id_chain == get_id_chain(st.stack, get_instance_id(ref))
             primitive == Log(st, "will_render", id_chain)
         IN IF get_handler_registry(ref)
            THEN IF peek_stack_frame(st.stack) # <<>>
                 THEN Log(primitive, "will_render_handlers", id_chain)
                 ELSE [primitive EXCEPT !.panic = TRUE]
            ELSE primitive

\* faulty variant: the node is linked to the node cached last
create_repeat_expanded_node_after_last(st, ref, parent) ==
    IF st.panic THEN st
    ELSE IF peek_stack_frame(st.stack) = <<>>
         THEN [st EXCEPT !.panic = TRUE]
         ELSE LET id_chain == get_id_chain(st.stack, get_instance_id(ref))
                  node == RepeatExpandedNode(id_chain, Len(st.cache), ref,
                                             peek_stack_frame(st.stack)[1],
                                             compute_layout(st, ref, parent))
              IN [Log(st, "cache", id_chain)
                    EXCEPT !.cache = add_to_repeat_expanded_node_cache(@, node)]

\* engine.rs 646-664
create_repeat_expanded_node(st, ref, parent) ==
    IF st.panic THEN st
    ELSE IF peek_stack_frame(st.stack) = <<>>
         THEN [st EXCEPT !.panic = TRUE]
         ELSE LET id_chain == get_id_chain(st.stack, get_instance_id(ref))
                  node == RepeatExpandedNode(id_chain, parent, ref,
                                             peek_stack_frame(st.stack)[1],
                                             compute_layout(st, ref, parent))
              IN [Log(st, "cache", id_chain)
                    EXCEPT !.cache = add_to_repeat_expanded_node_cache(@, node)]

\* engine.rs 685-709
\* faulty variant: a node outside the viewport computes no native patches
render_node_culls_patches(st, ref, self) ==
    IF st.panic THEN st
    ELSE LET id_chain == get_id_chain(st.stack, get_instance_id(ref))
             layered == [st EXCEPT !.layer_info = update_depth(@, get_layer_type(ref))]
             current_depth == get_depth(layered.layer_info)
             is_viewport_culled == ~intersects(st.cache[self].tab, engine_viewport_tab)
             last_layer == st.rcs - 1
             logged == [layered EXCEPT !.events =
                           Append(@, [ev |-> "compute_native_patches", chain |-> id_chain,
                                      depth |-> current_depth,
                                      layer |-> IF current_depth < st.rcs
                                                THEN current_depth ELSE last_layer])]
             patched == compute_native_patches(logged, ref, id_chain)
         IN IF st.rcs = 0 THEN [layered EXCEPT !.panic = TRUE]
            ELSE IF is_viewport_culled THEN layered
            ELSE Log(patched, "render", id_chain)

render_node(st, ref, self) ==
    IF st.panic THEN st
    ELSE LET id_chain == get_id_chain(st.stack, get_instance_id(ref))
             layered == [st EXCEPT !.layer_info = update_depth(@, get_layer_type(ref))]
             current_depth == get_depth(layered.layer_info)
             is_viewport_culled == ~intersects(st.cache[self].tab, engine_viewport_tab)
             last_layer == st.rcs - 1
             \* compute_native_patches is told the depth, or the last layer
             \* when no render context stands at the depth
             logged == [layered EXCEPT !.events =
                           Append(@, [ev |-> "compute_native_patches", chain |-> id_chain,
                                      depth |-> current_depth,
                                      layer |-> IF current_depth < st.rcs
                                                THEN current_depth ELSE last_layer])]
             patched == compute_native_patches(logged, ref, id_chain)
         IN \* rcs.len() - 1 with no render context: the subtraction overflows
            IF st.rcs = 0 THEN [layered EXCEPT !.panic = TRUE]
            ELSE IF is_viewport_culled THEN patched
            ELSE Log(patched, "render", id_chain)

\* faulty variant: every expansion of the instance leaves the mounted set
manage_unmount_by_instance(st, ref, marked_for_unmount) ==
    IF st.panic \/ ~marked_for_unmount THEN st
    ELSE LET id_chain == get_id_chain(st.stack, get_instance_id(ref))
         IN [handle_will_unmount(Log(st, "will_unmount", id_chain), ref, id_chain)
               EXCEPT !.mounted_set = {c \in @ : c[1] # get_instance_id(ref)}]

\* engine.rs 712-719
manage_unmount(st, ref, marked_for_unmount) ==
    IF st.panic \/ ~marked_for_unmount THEN st
    ELSE LET id_chain == get_id_chain(st.stack, get_instance_id(ref))
         IN [handle_will_unmount(Log(st, "will_unmount", id_chain), ref, id_chain)
               EXCEPT !.mounted_set = @ \ {id_chain}]

RECURSIVE recurse_traverse_render_tree(_, _, _, _)
RECURSIVE recurse_children(_, _, _, _, _)
RECURSIVE recurse_children_skip_first(_, _, _, _, _)
RECURSIVE recurse_children_first_declared_first(_, _, _, _, _)
RECURSIVE recurse_traverse_will_render_last(_, _, _, _)
RECURSIVE recurse_traverse_render_first(_, _, _, _)

\* faulty variant: the iteration stops one short and never visits the first-declared child
recurse_children_skip_first(st, children, k, parent, marked_for_unmount) ==
    IF k <= 1 THEN st
    ELSE recurse_children_skip_first(
             recurse_traverse_render_tree(st, children[k], parent, marked_for_unmount),
             children, k - 1, parent, marked_for_unmount)

\* faulty variant: the children are visited first declared first
recurse_children_first_declared_first(st, children, k, parent, marked_for_unmount) ==
    IF k = 0 THEN st
    ELSE recurse_children_first_declared_first(
             recurse_traverse_render_tree(st, children[Len(children) + 1 - k], parent,
                                          marked_for_unmount),
             children, k - 1, parent, marked_for_unmount)

\* children.iter().rev().for_each(...): k runs from the last child to the first
recurse_children(st, children, k, parent, marked_for_unmount) ==
    IF k = 0 THEN st
    ELSE recurse_children(
             recurse_traverse_render_tree(st, children[k], parent, marked_for_unmount),
             children, k - 1, parent, marked_for_unmount)

\* faulty variant: will-render fires once the children have returned
recurse_traverse_will_render_last(st, ref, parent, inherited_mark) ==
    LET st1 == IF st.panic THEN st ELSE compute_properties(st, ref)
        st2 == manage_did_mount(st1, ref)
        st4 == create_repeat_expanded_node(st2, ref, parent)
        self == Len(st4.cache)
        children == get_rendering_children(ref)
        marked_for_unmount ==
            inherited_mark \/ get_instance_id(ref) \in marked_for_unmount_set
        st5 == IF st4.panic THEN st4
               ELSE recurse_children(st4, children, Len(children), self,
                                     marked_for_unmount)
        st3 == fire_will_render(st5, ref)
        st6 == render_node(st3, ref, self)
        st7 == manage_unmount(st6, ref, marked_for_unmount)
    IN IF st7.panic THEN st7 ELSE handle_did_render(st7, ref)

\* faulty variant: the node is rendered before its children are visited
recurse_traverse_render_first(st, ref, parent, inherited_mark) ==
    LET st1 == IF st.panic THEN st ELSE compute_properties(st, ref)
        st2 == manage_did_mount(st1, ref)
        st3 == fire_will_render(st2, ref)
        st4 == create_repeat_expanded_node(st3, ref, parent)
        self == Len(st4.cache)
        children == get_rendering_children(ref)
        marked_for_unmount ==
            inherited_mark \/ get_instance_id(ref) \in marked_for_unmount_set
        st6 == render_node(st4, ref, self)
        st5 == IF st6.panic THEN st6
               ELSE recurse_children(st6, children, Len(children), self,
                                     marked_for_unmount)
        st7 == manage_unmount(st5, ref, marked_for_unmount)
    IN IF st7.panic THEN st7 ELSE handle_did_render(st7, ref)

recurse_traverse_render_tree(st, ref, parent, inherited_mark) ==
    LET st1 == IF st.panic THEN st ELSE compute_properties(st, ref)
        st2 == manage_did_mount(st1, ref)
        st3 == fire_will_render(st2, ref)
        st4 == create_repeat_expanded_node(st3, ref, parent)
        self == Len(st4.cache)
        children == get_rendering_children(ref)
        marked_for_unmount ==
            inherited_mark \/ get_instance_id(ref) \in marked_for_unmount_set
        st5 == IF st4.panic THEN st4
               ELSE recurse_children(st4, children, Len(children), self,
                                     marked_for_unmount)
        st6 == render_node(st5, ref, self)
        st7 == manage_unmount(st6, ref, marked_for_unmount)
    IN IF st7.panic THEN st7 ELSE handle_did_render(st7, ref)

\* faulty variant: a layer is requested only when the depth is beyond the list
enqueue_layer_add_when_beyond(st) ==
    IF get_depth(st.layer_info) > st.rcs
    THEN enqueue_native_message(
             st, LayerAddMessage(get_depth(st.layer_info) - st.rcs + 1))
    ELSE st

\* faulty variant: the request is one layer short
enqueue_layer_add_one_short(st) ==
    IF get_depth(st.layer_info) >= st.rcs
    THEN enqueue_native_message(
             st, LayerAddMessage(get_depth(st.layer_info) - st.rcs))
    ELSE st

\* engine.rs 533-538
enqueue_layer_add(st) ==
    IF get_depth(st.layer_info) >= st.rcs
    THEN enqueue_native_message(
             st, LayerAddMessage(get_depth(st.layer_info) - st.rcs + 1))
    ELSE st

\* Runtime::take_native_message_queue
take_native_message_queue(st) ==
    [st EXCEPT !.returned = st.native_message_queue,
               !.native_message_queue = <<>>]

\* faulty variant: the queue is taken before the layer request is enqueued
finish_traversal_takes_first(traversed) ==
    IF traversed.panic THEN traversed
    ELSE enqueue_layer_add(take_native_message_queue(traversed))

\* engine.rs 533-542
finish_traversal(traversed) ==
    IF traversed.panic THEN traversed
    ELSE take_native_message_queue(enqueue_layer_add(traversed))

\* engine.rs 509-543
traverse_render_tree(st) ==
    finish_traversal(recurse_traverse_render_tree(st, <<RootId, -1>>, 0, FALSE))

(***************************************************************************)
(* Engine operations                                                       *)
(***************************************************************************)
\* faulty variant: the cache of the earlier tick is kept
repeat_expanded_node_cache_kept == repeat_expanded_node_cache

reset_repeat_expanded_node_cache == <<>>

\* no ray has been cast by the last operation
NoRay == [status |-> "idle", hits |-> {}, nodes_ordered |-> <<>>, ret |-> 0]

\* faulty variant: the flags are left as they are
marked_for_unmount_set_kept == marked_for_unmount_set

\* engine.rs 531: marked_for_unmount_set = HashSet::new()
marked_for_unmount_set_after_traversal == {}

\* where the messages of one id stand after `message`
phase_after_message(phase, message) ==
    IF message.tag = "Create"
    THEN IF phase \in {"absent", "deleted"} THEN "created" ELSE "error"
    ELSE IF message.tag = "Update"
    THEN IF phase = "created" THEN "created" ELSE "error"
    ELSE IF phase = "created" THEN "deleted" ELSE "error"

\* where the messages of every id stand after `messages`, read in order
phase_after(phases, messages) ==
    LET F[k \in 0..Len(messages)] ==
            IF k = 0 THEN phases
            ELSE IF messages[k].tag = "LayerAdd" THEN F[k - 1]
            ELSE LET id == messages[k].id
                     before == IF id \in DOMAIN F[k - 1] THEN F[k - 1][id] ELSE "absent"
                 IN with_entry(F[k - 1], id, phase_after_message(before, messages[k]))
    IN F[Len(messages)]

\* the traversal state a tick starts from, the application having
\* recomputed its properties to inputs
tick_entry(inputs) ==
    [cache |-> reset_repeat_expanded_node_cache,
     mounted_set |-> mounted_set,
     stack |-> stack,
     events |-> <<>>,
     panic |-> FALSE,
     properties |-> properties,
     recomputed |-> inputs,
     native_listeners |-> native_listeners,
     native_message_queue |-> native_message_queue,
     evaluated |-> evaluated,
     layer_info |-> new_layer_info,
     rcs |-> rcs,
     returned |-> <<>>]

\* what a tick leaves behind once its traversal ended in st
tick_exit(st) ==
    /\ repeat_expanded_node_cache' = st.cache
    /\ mounted_set' = st.mounted_set
    /\ stack' = st.stack
    /\ events' = st.events
    /\ aborted' = st.panic
    /\ marked_for_unmount_set' =
          IF st.panic THEN marked_for_unmount_set
          ELSE marked_for_unmount_set_after_traversal
    /\ frames_elapsed' =
          IF st.panic THEN frames_elapsed ELSE frames_elapsed + 1
    /\ properties' = st.properties
    /\ native_listeners' = st.native_listeners
    /\ evaluated' = st.evaluated
    /\ native_message_queue' = st.native_message_queue
    /\ native_render_queue' = st.returned
    /\ native_phase' = phase_after(native_phase, st.returned)
    /\ layer_info' = st.layer_info
    /\ prev_mounted' = mounted_set
    /\ ray' = NoRay
    /\ UNCHANGED <<tree, repeat_count, rcs, viewport_tab, layout, pvars, hvars, rvars, ovars>>

\* PaxEngine::tick
Tick ==
    /\ ~aborted
    /\ frames_elapsed < MaxFrames
    /\ \E inputs \in recomputations(properties) :
          tick_exit(traverse_render_tree(tick_entry(inputs)))

\* PaxEngine::tick while the application changes none of its properties
TickSteady ==
    /\ ~aborted
    /\ frames_elapsed < MaxFrames
    /\ tick_exit(traverse_render_tree(tick_entry(properties)))

\* DropdownInstance::handle_native_interrupt, FormDropdownChange
dropdown_handle_native_interrupt(props, selected_id) ==
    IF props.selected_id # selected_id
    THEN [props EXCEPT !.selected_id = selected_id]
    ELSE props

\* SliderInstance::handle_native_interrupt, FormSliderChange
slider_handle_native_interrupt(props, value) == [props EXCEPT !.value = value]

\* a form-control interrupt reaches the mounted control it is addressed to
NativeInterrupt ==
    /\ ~aborted
    /\ \E i \in NativeIds(tree), v \in InputValues("selected_id") :
          /\ <<i>> \in mounted_set
          /\ properties' =
                [properties EXCEPT ![i] =
                    IF tree[i].kind = "Dropdown"
                    THEN dropdown_handle_native_interrupt(@, v)
                    ELSE slider_handle_native_interrupt(@, v)]
    /\ events' = <<>>
    /\ prev_mounted' = mounted_set
    /\ ray' = NoRay
    /\ native_render_queue' = <<>>
    /\ layer_info' = new_layer_info
    /\ UNCHANGED <<rcs, viewport_tab, layout, pvars, hvars, rvars, ovars>>
    /\ UNCHANGED <<tree, repeat_count, frames_elapsed, repeat_expanded_node_cache,
                   mounted_set, marked_for_unmount_set, stack, aborted,
                   native_listeners, native_message_queue, evaluated, native_phase>>

\* InstanceRegistry::mark_for_unmount
MarkForUnmount ==
    /\ ~aborted
    /\ \E instance_id \in DeclaredIds(tree) :
          /\ Cardinality(marked_for_unmount_set \cup {instance_id}) <= MaxMarked
          /\ marked_for_unmount_set' = marked_for_unmount_set \cup {instance_id}
    /\ events' = <<>>
    /\ prev_mounted' = mounted_set
    /\ ray' = NoRay
    /\ native_render_queue' = <<>>
    /\ layer_info' = new_layer_info
    /\ UNCHANGED <<rcs, viewport_tab, layout, pvars, hvars, rvars, ovars>>
    /\ UNCHANGED <<tree, repeat_count, frames_elapsed, repeat_expanded_node_cache,
                   mounted_set, stack, aborted, properties, native_listeners,
                   native_message_queue, evaluated, native_phase>>

\* the data source of a Repeat changes length between ticks
SetRepeatCount ==
    /\ ~aborted
    /\ \E r \in RepeatIds(tree), n \in 0..MaxRepeat :
          /\ n # repeat_count[r]
          /\ repeat_count' = [repeat_count EXCEPT ![r] = n]
    /\ events' = <<>>
    /\ prev_mounted' = mounted_set
    /\ ray' = NoRay
    /\ native_render_queue' = <<>>
    /\ layer_info' = new_layer_info
    /\ UNCHANGED <<rcs, viewport_tab, layout, pvars, hvars, rvars, ovars>>
    /\ UNCHANGED <<tree, frames_elapsed, repeat_expanded_node_cache, mounted_set,
                   marked_for_unmount_set, stack, aborted, properties,
                   native_listeners, native_message_queue, evaluated, native_phase>>

(***************************************************************************)
(* Ray casting.  A cache entry is addressed by its position in the cache;  *)
(* `hits` is the set of entries whose own ray_cast_test passes at the ray  *)
(* point (the shapes are the caller's).                                    *)
(***************************************************************************)
ray_cast_test(hits, k) == k \in hits

\* repeat_expanded_node_cache.iter().rev().collect(): positions, last first
reversed_cache(cache) == [j \in 1..Len(cache) |-> Len(cache) + 1 - j]

\* nodes_ordered.remove(0)
remove_first(ordered) == SubSeq(ordered, 2, Len(ordered))

\* faulty variant: only the direct parent is tested
clipping_parent_only(cache, hits, parent) ==
    IF parent = 0 THEN TRUE
    ELSE ~(is_clipping(cache[parent].instance_node) /\ ~ray_cast_test(hits, parent))

\* engine.rs 768-781: the loop over the parent chain
ancestral_clipping_bounds_are_satisfied(cache, hits, parent) ==
    LET Walk[p \in 0..Len(cache)] ==
            IF p = 0 THEN TRUE
            ELSE IF is_clipping(cache[p].instance_node) /\ ~ray_cast_test(hits, p)
                 THEN FALSE
                 ELSE Walk[cache[p].parent_repeat_expanded_node]
    IN Walk[parent]

\* engine.rs 757-790: the first node of nodes_ordered that passes both tests
first_hit(cache, hits, ordered) ==
    LET passes(j) ==
            /\ ray_cast_test(hits, ordered[j])
            /\ ancestral_clipping_bounds_are_satisfied(
                   cache, hits, cache[ordered[j]].parent_repeat_expanded_node)
        passing == {j \in 1..Len(ordered) : passes(j)}
    IN IF passing = {} THEN 0
       ELSE ordered[CHOOSE j \in passing : \A i \in passing : j <= i]

\* PaxEngine::get_topmost_element_beneath_ray
get_topmost_element_beneath_ray(cache, hits) ==
    IF Len(cache) = 0
    THEN [status |-> "panic", hits |-> hits, nodes_ordered |-> <<>>, ret |-> 0]
    ELSE LET ordered == remove_first(reversed_cache(cache))
         IN [status |-> "done", hits |-> hits, nodes_ordered |-> ordered,
             ret |-> first_hit(cache, hits, ordered)]

RayCast ==
    /\ ~aborted
    /\ Len(repeat_expanded_node_cache) <= MaxRayCache
    /\ \E hits \in SUBSET (1..Len(repeat_expanded_node_cache)) :
          LET r == get_topmost_element_beneath_ray(repeat_expanded_node_cache, hits)
          IN /\ ray' = r
             /\ aborted' = (r.status = "panic")
    /\ events' = <<>>
    /\ prev_mounted' = mounted_set
    /\ native_render_queue' = <<>>
    /\ layer_info' = new_layer_info
    /\ UNCHANGED <<rcs, viewport_tab, layout, pvars, hvars, rvars, ovars>>
    /\ UNCHANGED <<tree, repeat_count, frames_elapsed, repeat_expanded_node_cache,
                   mounted_set, marked_for_unmount_set, stack, properties,
                   native_listeners, native_message_queue, evaluated, native_phase>>

(***************************************************************************)
(* The engine after PaxEngine::new and InstanceRegistry::new               *)
(***************************************************************************)
\* the host holds one render context unless said otherwise
OneLayer == {1}

\* every side a viewport can have
ViewportSides == {100 * k : k \in 1..MaxViewport}

ViewportDefault == <<100, 100>>

\* the engine before its first tick, but for its viewport and its layout
InitEngine(trees, layers) ==
    /\ tree \in trees
    /\ rcs \in layers
    /\ layer_info = new_layer_info
    /\ repeat_count \in [DOMAIN tree -> 0..MaxRepeat]
    /\ \A i \in DOMAIN tree : i \notin RepeatIds(tree) => repeat_count[i] = 0
    /\ frames_elapsed = 0
    /\ repeat_expanded_node_cache = <<>>
    /\ mounted_set = {}
    /\ marked_for_unmount_set = {}
    /\ stack = <<>>
    /\ events = <<>>
    /\ prev_mounted = {}
    /\ ray = NoRay
    /\ aborted = FALSE
    /\ properties = [i \in NativeIds(tree) |-> default_properties(tree[i].kind)]
    /\ native_listeners = NoEntries
    /\ native_message_queue = <<>>
    /\ native_render_queue = <<>>
    /\ evaluated = NoEntries
    /\ native_phase = NoEntries

(***************************************************************************)
(* The instance registry's id counter (pax-core/src/engine.rs).            *)
(***************************************************************************)

\* faulty variant: the counter is not advanced
mint_id_kept(registry_next_id) ==
    [next_id |-> registry_next_id, new_id |-> registry_next_id]

\* InstanceRegistry::mint_id: the id returned and the counter it leaves
mint_id(registry_next_id) ==
    [next_id |-> registry_next_id + 1, new_id |-> registry_next_id]

(***************************************************************************)
(* Slot content (adoptees) and the stack frames that hold it               *)
(* (pax-core/src/runtime.rs).                                              *)
(***************************************************************************)

\* a node passed as slot content: whether it is transparent, and the
\* children it renders once its properties are computed
AdopteeNode(flatten, children) == [should_flatten |-> flatten, children |-> children]

\* the slot content of the model:
\*   1 Repeat [2 leaf, 3 Conditional [4 leaf]]
\*   5 Group [6 Conditional [7 leaf]]
\*   8 leaf
AdopteeNodes ==
    <<AdopteeNode(TRUE, <<2, 3>>), AdopteeNode(FALSE, <<>>),
      AdopteeNode(TRUE, <<4>>), AdopteeNode(FALSE, <<>>),
      AdopteeNode(FALSE, <<6>>), AdopteeNode(TRUE, <<7>>),
      AdopteeNode(FALSE, <<>>), AdopteeNode(FALSE, <<>>)>>

\* the lists of slot content a component is instantiated with
AdopteeLists == {<<>>, <<8>>, <<1, 8>>, <<5, 3>>, <<8, 1>>}

adoptee_should_flatten(a) == AdopteeNodes[a].should_flatten

\* a transparent node has no children before its properties are computed
RenderingChildrenDefault ==
    [a \in DOMAIN AdopteeNodes |->
        IF adoptee_should_flatten(a) THEN <<>> ELSE AdopteeNodes[a].children]

\* RenderNode::compute_properties of a slot-content node: its children are
\* materialized
adoptee_compute_properties(st, a) ==
    [st EXCEPT !.rendering_children[a] = AdopteeNodes[a].children,
               !.events = Append(@, [ev |-> "compute_properties", chain |-> <<a>>])]

\* RenderNode::get_rendering_children of a slot-content node
adoptee_get_rendering_children(st, a) == st.rendering_children[a]

RECURSIVE process_adoptee_recursive(_, _)
RECURSIVE process_adoptee_without_properties(_, _)
RECURSIVE flatten_adoptees(_, _, _)

\* .iter().map(process).flatten().collect(): the lists the nodes expand to,
\* first node first, concatenated; process is the expansion of one node
flatten_adoptees(st, list, without_properties) ==
    IF list = <<>> THEN [st |-> st, adoptees |-> <<>>]
    ELSE LET head == IF without_properties
                     THEN process_adoptee_without_properties(st, Head(list))
                     ELSE process_adoptee_recursive(st, Head(list))
             tail == flatten_adoptees(head.st, Tail(list), without_properties)
         IN [st |-> tail.st, adoptees |-> head.adoptees \o tail.adoptees]

\* faulty variant: the children are read without computing the properties
process_adoptee_without_properties(st, a) ==
    IF adoptee_should_flatten(a)
    THEN flatten_adoptees(st, adoptee_get_rendering_children(st, a), TRUE)
    ELSE [st |-> st, adoptees |-> <<a>>]

\* Runtime::process_adoptee_recursive
process_adoptee_recursive(st, a) ==
    IF adoptee_should_flatten(a)
    THEN LET computed == adoptee_compute_properties(st, a)
         IN flatten_adoptees(computed, adoptee_get_rendering_children(computed, a), FALSE)
    ELSE [st |-> st, adoptees |-> <<a>>]

\* StackFrame::new; parent is the position of the parent frame, 0 for none
StackFrame_new(adoptees, parent, shadow_scope_only) ==
    [adoptees |-> adoptees, parent |-> parent, shadow_scope_only |-> shadow_scope_only]

\* StackFrame::recurse_get_adoptees: the list of the nearest frame, from
\* maybe_parent upwards, that is not a shadow frame
RECURSIVE recurse_get_adoptees(_, _)
recurse_get_adoptees(stk, maybe_parent) ==
    IF maybe_parent = 0 THEN <<>>
    ELSE IF stk[maybe_parent].shadow_scope_only
         THEN recurse_get_adoptees(stk, stk[maybe_parent].parent)
         ELSE <<stk[maybe_parent].adoptees>>

\* faulty variant: an index beyond the list yields the last adoptee
nth_adoptee_clamped(frame, n) ==
    IF Len(frame.adoptees) = 0 THEN <<>>
    ELSE IF n < Len(frame.adoptees) THEN <<frame.adoptees[n + 1]>>
    ELSE <<frame.adoptees[Len(frame.adoptees)]>>

\* StackFrame::nth_adoptee; n counts from 0
nth_adoptee(frame, n) ==
    IF n < Len(frame.adoptees) THEN <<frame.adoptees[n + 1]>> ELSE <<>>

\* no adoptee has been looked up
NoLookup == [n |-> -1, ret |-> <<>>]

(***************************************************************************)
(* The undo stack of the manifest editor                                   *)
(* (pax-designtime/src/orm/mod.rs).                                        *)
(***************************************************************************)

\* PaxManifestORM::new
PaxManifestORM_new ==
    [manifest |-> {}, undo_stack |-> <<>>, redo_stack |-> <<>>,
     next_command_id |-> 0, manifest_version |-> 0, reload_queue |-> <<>>,
     undone |-> <<>>, err |-> FALSE]

\* PaxManifestORM::set_reload
set_reload(orm, reload_type) == [orm EXCEPT !.reload_queue = Append(@, reload_type)]

\* faulty variant: the redo stack is kept when a command is executed
execute_command_keeps_redo(orm, undoable, reload_type) ==
    LET command_id == orm.next_command_id
        executed == [orm EXCEPT !.manifest = @ \cup {command_id},
                                !.undo_stack = IF undoable THEN Append(@, command_id) ELSE @,
                                !.next_command_id = @ + 1]
    IN IF reload_type # <<>>
       THEN [[executed EXCEPT !.reload_queue = Append(@, reload_type[1])]
                EXCEPT !.manifest_version = @ + 1]
       ELSE executed

\* PaxManifestORM::execute_command; undoable is whether the command's
\* as_undo_redo yields a command, reload_type what the response's
\* get_reload_type yields: <<>> for None, <<t>> for Some(t)
execute_command(orm, undoable, reload_type) ==
    LET command_id == orm.next_command_id
        executed == [orm EXCEPT !.manifest = @ \cup {command_id},
                                !.undo_stack = IF undoable THEN Append(@, command_id) ELSE @,
                                !.redo_stack = IF undoable THEN <<>> ELSE @,
                                !.next_command_id = @ + 1]
    IN IF reload_type # <<>>
       THEN [set_reload(executed, reload_type[1]) EXCEPT !.manifest_version = @ + 1]
       ELSE executed

\* PaxManifestORM::undo; fails holds the commands whose undo returns an error
undo(orm, fails) ==
    IF orm.undo_stack = <<>> THEN orm
    ELSE LET id == orm.undo_stack[Len(orm.undo_stack)]
             popped == [orm EXCEPT !.undo_stack = SubSeq(@, 1, Len(@) - 1)]
         IN IF id \in fails THEN [popped EXCEPT !.err = TRUE]
            ELSE set_reload([popped EXCEPT !.manifest = @ \ {id},
                                           !.redo_stack = Append(@, id),
                                           !.manifest_version = @ + 1,
                                           !.undone = Append(@, id)],
                            "FullEdit")

\* PaxManifestORM::redo
redo(orm, fails) ==
    IF orm.redo_stack = <<>> THEN orm
    ELSE LET id == orm.redo_stack[Len(orm.redo_stack)]
             popped == [orm EXCEPT !.redo_stack = SubSeq(@, 1, Len(@) - 1)]
         IN IF id \in fails THEN [popped EXCEPT !.err = TRUE]
            ELSE set_reload([popped EXCEPT !.manifest = @ \cup {id},
                                           !.undo_stack = Append(@, id),
                                           !.manifest_version = @ + 1],
                            "FullEdit")

RECURSIVE undo_until(_, _, _)
RECURSIVE undo_until_through(_, _, _)

\* faulty variant: the command named is undone as well
undo_until_through(orm, command_id, fails) ==
    IF orm.undo_stack = <<>> THEN orm
    ELSE LET id == orm.undo_stack[Len(orm.undo_stack)]
             undid == undo(orm, fails)
         IN IF undid.err \/ command_id = <<id>> THEN undid
            ELSE undo_until_through(undid, command_id, fails)

\* PaxManifestORM::undo_until; command_id is <<>> for None, <<id>> for Some(id)
undo_until(orm, command_id, fails) ==
    IF orm.undo_stack = <<>> THEN orm
    ELSE IF command_id = <<orm.undo_stack[Len(orm.undo_stack)]>> THEN orm
    ELSE LET undid == undo(orm, fails)
         IN IF undid.err THEN undid ELSE undo_until(undid, command_id, fails)

\* PaxManifestORM::redo_including
RECURSIVE redo_including(_, _, _)
redo_including(orm, command_id, fails) ==
    IF orm.redo_stack = <<>> THEN orm
    ELSE LET id == orm.redo_stack[Len(orm.redo_stack)]
             redid == redo(orm, fails)
         IN IF redid.err \/ id = command_id THEN redid
            ELSE redo_including(redid, command_id, fails)

\* nothing was undone
NoUndo == [op |-> "none", command_id |-> <<>>, fails |-> {}, before |-> <<>>,
           ids |-> <<>>, err |-> FALSE]

\* a registry that has minted nothing, slot content never computed, an
\* editor that has executed nothing
InitIdle ==
    /\ next_id = 0
    /\ minted = <<>>
    /\ rendering_children = RenderingChildrenDefault
    /\ adoptee = NoLookup
    /\ undo_stack = PaxManifestORM_new.undo_stack
    /\ redo_stack = PaxManifestORM_new.redo_stack
    /\ next_command_id = PaxManifestORM_new.next_command_id
    /\ manifest = PaxManifestORM_new.manifest
    /\ manifest_version = PaxManifestORM_new.manifest_version
    /\ reload_queue = PaxManifestORM_new.reload_queue
    /\ undone = NoUndo

\* no handler registered for a pointer event
HandlersDefault == [click |-> 0, scroll |-> 0]

\* no expression in the table, no property being updated, no pointer handler
InitInputs ==
    /\ expression_table = <<>>
    /\ node_properties = <<>>
    /\ property_cursor = 1
    /\ node_scope = 0
    /\ handlers = [i \in DOMAIN tree |-> HandlersDefault]
    /\ InitIdle

InitOver(trees, layers) ==
    /\ InitEngine(trees, layers)
    /\ viewport_tab = ViewportDefault
    /\ layout = default_layout(tree)
    /\ InitInputs

InitWith(trees) == InitOver(trees, OneLayer)

\* trees with at most one Repeat
LifecycleTrees == Trees \ {TreeNestedRepeat}

Init == InitWith(LifecycleTrees)

InitExpand == InitWith(Trees)

\* the traversal and its mount bookkeeping
Next ==
    \/ Tick
    \/ MarkForUnmount
    \/ SetRepeatCount

Spec == Init /\ [][Next]_vars

\* expansion of every tree, nested repeats included
NextExpand ==
    \/ Tick
    \/ SetRepeatCount

SpecExpand == InitExpand /\ [][NextExpand]_vars

\* ray casts against the cache the ticks leave
NextRay ==
    \/ Tick
    \/ SetRepeatCount
    \/ RayCast

SpecRay == Init /\ [][NextRay]_vars

InitNative == InitWith(NativeTrees)

\* the form controls under ticks, unmount flags and form interrupts
NextNative ==
    \/ Tick
    \/ MarkForUnmount
    \/ NativeInterrupt

SpecNative == InitNative /\ [][NextNative]_vars

\* the host allocates the render contexts a layer request asks for
AddLayers ==
    /\ ~aborted
    /\ \E k \in 1..Len(native_render_queue) :
          /\ native_render_queue[k].tag = "LayerAdd"
          /\ rcs' = rcs + native_render_queue[k].num_layers_to_add
    /\ events' = <<>>
    /\ prev_mounted' = mounted_set
    /\ ray' = NoRay
    /\ native_render_queue' = <<>>
    /\ layer_info' = new_layer_info
    /\ UNCHANGED <<viewport_tab, layout, pvars, hvars, rvars, ovars>>
    /\ UNCHANGED <<tree, repeat_count, frames_elapsed, repeat_expanded_node_cache,
                   mounted_set, marked_for_unmount_set, stack, aborted, properties,
                   native_listeners, native_message_queue, evaluated, native_phase>>

InitLayers == InitOver(LayerTrees, 0..MaxLayers)

\* PaxEngine::set_viewport_size
SetViewportSize ==
    /\ ~aborted
    /\ \E new_viewport_size \in ViewportSides \X ViewportSides :
          /\ new_viewport_size # viewport_tab
          /\ viewport_tab' = new_viewport_size
    /\ events' = <<>>
    /\ prev_mounted' = mounted_set
    /\ ray' = NoRay
    /\ native_render_queue' = <<>>
    /\ layer_info' = new_layer_info
    /\ UNCHANGED <<rcs, layout, pvars, hvars, rvars, ovars>>
    /\ UNCHANGED <<tree, repeat_count, frames_elapsed, repeat_expanded_node_cache,
                   mounted_set, marked_for_unmount_set, stack, aborted, properties,
                   native_listeners, native_message_queue, evaluated, native_phase>>

Offsets == 0..MaxOffset

\* no rotation, or a quarter turn
QuarterTurns == {0, 1}

\* the layouts of root [P [C]]: P fills its container or half of it, is
\* moved by whole pixels and may be turned; C is half as wide as P or has a
\* width of its own, and is moved by whole pixels
LayoutInputs ==
    {(0 :> NodeLayoutDefault) @@ (1 :> P) @@ (2 :> C) :
        P \in {NodeLayout(w, Percent(100), Pixels(dx), Pixels(dy), r) :
                  w \in {Percent(50), Percent(100)},
                  dx \in Offsets, dy \in Offsets, r \in QuarterTurns},
        C \in {NodeLayout(w, Percent(100), Pixels(x), Pixels(y), 0) :
                  w \in {Percent(50), Pixels(30)},
                  x \in Offsets, y \in Offsets}}

InitLayout ==
    /\ InitEngine({TreeLayout}, OneLayer)
    /\ viewport_tab = ViewportDefault
    /\ layout \in LayoutInputs
    /\ InitInputs

\* ticks under a host that resizes the viewport
NextLayout ==
    \/ TickSteady
    \/ SetViewportSize

SpecLayout == InitLayout /\ [][NextLayout]_vars

InitUnframed == InitWith(LifecycleTrees \cup {TreeUnframed})

\* the lifecycle, over trees one of which is entered without a stack frame
NextUnframed ==
    \/ Tick
    \/ MarkForUnmount
    \/ SetRepeatCount

SpecUnframed == InitUnframed /\ [][NextUnframed]_vars

(***************************************************************************)
(* Pointer events.  An event is dispatched on an expanded node of the      *)
(* cache; the log holds the dispatch and then every handler invoked, in    *)
(* order: the expanded node it was invoked on, by its position in the      *)
(* cache, and the position of the handler among the handlers of the event. *)
(***************************************************************************)
Invocation(ev, cache, k, handler) ==
    [ev |-> ev, chain |-> cache[k].id_chain, node |-> k, handler |-> handler]

\* handlers.iter().for_each(|handler| handler(..))
invoke_handlers(log, cache, k, event) ==
    log \o [h \in 1..handlers[cache[k].instance_node[1]][event] |->
               Invocation(event, cache, k, h)]

RECURSIVE dispatch(_, _, _, _)
RECURSIVE dispatch_stops_without_registry(_, _, _, _)

\* faulty variant: a node without a handler registry ends the propagation
dispatch_stops_without_registry(log, cache, k, event) ==
    IF get_handler_registry(cache[k].instance_node)
    THEN IF cache[k].parent_repeat_expanded_node # 0
         THEN dispatch_stops_without_registry(
                  invoke_handlers(log, cache, k, event), cache,
                  cache[k].parent_repeat_expanded_node, event)
         ELSE invoke_handlers(log, cache, k, event)
    ELSE log

\* RepeatExpandedNode::dispatch_click, dispatch_scroll
dispatch(log, cache, k, event) ==
    LET invoked == IF get_handler_registry(cache[k].instance_node)
                   THEN invoke_handlers(log, cache, k, event)
                   ELSE log
    IN IF cache[k].parent_repeat_expanded_node # 0
       THEN dispatch(invoked, cache, cache[k].parent_repeat_expanded_node, event)
       ELSE invoked

\* the host dispatches a click on an expanded node of the last tick
DispatchClick ==
    /\ ~aborted
    /\ \E k \in 1..Len(repeat_expanded_node_cache) :
          events' = dispatch(<<Invocation("dispatch_click",
                                          repeat_expanded_node_cache, k, 0)>>,
                             repeat_expanded_node_cache, k, "click")
    /\ prev_mounted' = mounted_set
    /\ ray' = NoRay
    /\ native_render_queue' = <<>>
    /\ layer_info' = new_layer_info
    /\ UNCHANGED <<rcs, tvars, pvars, hvars, rvars, ovars>>
    /\ UNCHANGED <<tree, repeat_count, frames_elapsed, repeat_expanded_node_cache,
                   mounted_set, marked_for_unmount_set, stack, aborted, properties,
                   native_listeners, native_message_queue, evaluated, native_phase>>

\* the host dispatches a scroll on an expanded node of the last tick
DispatchScroll ==
    /\ ~aborted
    /\ \E k \in 1..Len(repeat_expanded_node_cache) :
          events' = dispatch(<<Invocation("dispatch_scroll",
                                          repeat_expanded_node_cache, k, 0)>>,
                             repeat_expanded_node_cache, k, "scroll")
    /\ prev_mounted' = mounted_set
    /\ ray' = NoRay
    /\ native_render_queue' = <<>>
    /\ layer_info' = new_layer_info
    /\ UNCHANGED <<rcs, tvars, pvars, hvars, rvars, ovars>>
    /\ UNCHANGED <<tree, repeat_count, frames_elapsed, repeat_expanded_node_cache,
                   mounted_set, marked_for_unmount_set, stack, aborted, properties,
                   native_listeners, native_message_queue, evaluated, native_phase>>

HandlerCounts == [click : 0..MaxHandlers, scroll : 0..MaxHandlers]

\* the registries of a tree: any number of handlers per event where the
\* instance has a registry, none where it has not
HandlerInputs(t) ==
    {h \in [DOMAIN t -> HandlerCounts] :
        \A i \in DOMAIN t : ~t[i].registry => h[i] = HandlersDefault}

InitDispatch ==
    /\ InitEngine(DispatchTrees, OneLayer)
    /\ viewport_tab = ViewportDefault
    /\ layout = default_layout(tree)
    /\ expression_table = <<>>
    /\ node_properties = <<>>
    /\ property_cursor = 1
    /\ node_scope = 0
    /\ handlers \in HandlerInputs(tree)
    /\ InitIdle

\* ticks, and pointer events on the nodes the last tick expanded
NextDispatch ==
    \/ TickSteady
    \/ DispatchClick
    \/ DispatchScroll

SpecDispatch == InitDispatch /\ [][NextDispatch]_vars

(***************************************************************************)
(* Property updates.  A property is a literal or is backed by an           *)
(* expression of the table; the value an expression yields carries its     *)
(* type, and the downcast succeeds when it is the static type of the       *)
(* property.  The properties of a node are updated one after the other.    *)
(***************************************************************************)
Types == {"f64", "String"}

VtableIds == {0, 1}

\* the vtable id of a property: absent for a literal
Literal == <<>>

PropertyInstance(vtable_id, type) ==
    [vtable_id |-> vtable_id, type |-> type, value |-> "default"]

\* the scopes a node can be in
Scopes == {0, 1}

\* ExpressionTable::compute_vtable_value: the value the expression yields for
\* the scope of the node
compute_vtable_value(table, node, vtable_id) ==
    [type |-> table[vtable_id].type, value |-> table[vtable_id].value[node]]

\* faulty variant: a value of another type is passed over in silence
handle_vtable_update_skips(table, node, property) ==
    IF property.vtable_id # Literal
    THEN LET new_value_wrapped == compute_vtable_value(table, node, property.vtable_id[1])
         IN IF new_value_wrapped.type = property.type
            THEN [property |-> [property EXCEPT !.value = new_value_wrapped.value],
                  panic |-> FALSE, consulted |-> <<property.vtable_id[1]>>]
            ELSE [property |-> property, panic |-> FALSE,
                  consulted |-> <<property.vtable_id[1]>>]
    ELSE [property |-> property, panic |-> FALSE, consulted |-> <<>>]

\* faulty variant: a value the property holds already is retained
handle_vtable_update_retains(table, node, property) ==
    IF property.vtable_id # Literal /\ property.value = "default"
    THEN LET new_value_wrapped == compute_vtable_value(table, node, property.vtable_id[1])
         IN IF new_value_wrapped.type = property.type
            THEN [property |-> [property EXCEPT !.value = new_value_wrapped.value],
                  panic |-> FALSE, consulted |-> <<property.vtable_id[1]>>]
            ELSE [property |-> property, panic |-> TRUE,
                  consulted |-> <<property.vtable_id[1]>>]
    ELSE [property |-> property, panic |-> FALSE, consulted |-> <<>>]

\* declarative_macros.rs handle_vtable_update; `consulted` lists the vtable
\* ids whose value was computed
handle_vtable_update(table, node, property) ==
    IF property.vtable_id # Literal
    THEN LET new_value_wrapped == compute_vtable_value(table, node, property.vtable_id[1])
         IN IF new_value_wrapped.type = property.type
            THEN [property |-> [property EXCEPT !.value = new_value_wrapped.value],
                  panic |-> FALSE, consulted |-> <<property.vtable_id[1]>>]
            ELSE [property |-> property, panic |-> TRUE,
                  consulted |-> <<property.vtable_id[1]>>]
    ELSE [property |-> property, panic |-> FALSE, consulted |-> <<>>]

\* an optional property: absent, or present
None == <<>>

Some(property) == <<property>>

\* declarative_macros.rs handle_vtable_update_optional
handle_vtable_update_optional(table, node, optional_property) ==
    IF optional_property # None
    THEN LET updated == handle_vtable_update(table, node, optional_property[1])
         IN [updated EXCEPT !.property = Some(@)]
    ELSE [property |-> optional_property, panic |-> FALSE, consulted |-> <<>>]

\* the update of the next property of the node
UpdateProperty ==
    /\ ~aborted
    /\ property_cursor <= Len(node_properties)
    /\ \E updated \in {handle_vtable_update(expression_table, node_scope,
                                             node_properties[property_cursor])} :
          /\ node_properties' =
                [node_properties EXCEPT ![property_cursor] = updated.property]
          /\ aborted' = updated.panic
          /\ property_cursor' =
                IF updated.panic THEN property_cursor ELSE property_cursor + 1
    /\ events' = <<>>
    /\ prev_mounted' = mounted_set
    /\ ray' = NoRay
    /\ native_render_queue' = <<>>
    /\ layer_info' = new_layer_info
    /\ UNCHANGED <<rcs, tvars, hvars, rvars, ovars, expression_table, node_scope>>
    /\ UNCHANGED <<tree, repeat_count, frames_elapsed, repeat_expanded_node_cache,
                   mounted_set, marked_for_unmount_set, stack, properties,
                   native_listeners, native_message_queue, evaluated, native_phase>>

ExpressionTables ==
    [VtableIds -> {[type |-> t, value |-> [s \in Scopes |-> "computed"]] : t \in Types}]

PropertyInstances ==
    {PropertyInstance(v, t) :
        v \in {Literal} \cup {<<i>> : i \in VtableIds}, t \in Types}

InitProperties ==
    /\ InitEngine({TreeRootOnly}, OneLayer)
    /\ viewport_tab = ViewportDefault
    /\ layout = default_layout(tree)
    /\ handlers = [i \in DOMAIN tree |-> HandlersDefault]
    /\ expression_table \in ExpressionTables
    /\ node_properties \in [1..MaxProperties -> PropertyInstances]
    /\ property_cursor = 1
    /\ node_scope = 0
    /\ InitIdle

NextProperties == UpdateProperty

SpecProperties == InitProperties /\ [][NextProperties]_vars

\* ticks over trees that need several render layers, under a host that
\* starts with too few or enough
NextLayers ==
    \/ TickSteady
    \/ MarkForUnmount
    \/ NativeInterrupt
    \/ AddLayers

SpecLayers == InitLayers /\ [][NextLayers]_vars

(***************************************************************************)
(* Properties of the traversal                                             *)
(***************************************************************************)
\* the positions of `events` that open or close a mounted lifetime of `chain`
LifetimeMarks(chain, upto) ==
    {j \in 1..upto : /\ events[j].chain = chain
                     /\ events[j].ev \in {"did_mount", "will_unmount"}}

\* whether `chain` is inside a mounted lifetime after the first `upto` events
Live(chain, upto) ==
    LET marks == LifetimeMarks(chain, upto)
    IN IF marks = {} THEN chain \in prev_mounted
       ELSE events[CHOOSE j \in marks : \A i \in marks : i <= j].ev = "did_mount"

\* C1: a visit fires the mount handlers exactly when its id_chain is outside
\* a mounted lifetime (never while mounted, and once again on the first visit
\* after a will-unmount), mount fires nowhere else, each id_chain has its own
\* lifetime, and the mounted set is the set of live id_chains.
C1_MountOncePerLifetime ==
    /\ \A k \in 1..Len(events) :
          events[k].ev = "compute_properties" =>
             (Live(events[k].chain, k)
                <=> ~(/\ k < Len(events)
                      /\ events[k + 1] = [ev |-> "did_mount", chain |-> events[k].chain]))
    /\ \A k \in 1..Len(events) :
          events[k].ev = "did_mount" =>
             /\ k > 1
             /\ events[k - 1] = [ev |-> "compute_properties", chain |-> events[k].chain]
    /\ \A c \in prev_mounted \cup {events[k].chain : k \in 1..Len(events)} :
          (c \in mounted_set) <=> Live(c, Len(events))

\* C1 witness: the second tick re-mounts A, unmounted by the first, and mounts
\* the second expansion of the repeated leaf while the first stays mounted
C1_Witness ==
    /\ tree = TreeMixed
    /\ frames_elapsed = 2
    /\ <<5, 0>> \in prev_mounted
    /\ \E k \in 1..Len(events) : events[k] = [ev |-> "did_mount", chain |-> <<2>>]
    /\ \E k \in 1..Len(events) : events[k] = [ev |-> "did_mount", chain |-> <<5, 1>>]
    /\ ~\E k \in 1..Len(events) : events[k] = [ev |-> "did_mount", chain |-> <<5, 0>>]

\* a tick has just completed (every other operation clears the call log)
JustTicked == Len(events) > 0 /\ ~aborted

NoRepeats(t) == RepeatIds(t) = {}

\* every node is a child of at most one node, at most once
IsTree(t) ==
    \A i \in DOMAIN t :
       Cardinality({<<p, k>> \in (DOMAIN t) \X (1..Cardinality(DOMAIN t)) :
                       k <= Len(t[p].children) /\ t[p].children[k] = i}) <= 1

\* instance ids reachable from the root through `children`
Reachable(t) ==
    LET R[n \in 0..Cardinality(DOMAIN t)] ==
            IF n = 0 THEN {RootId}
            ELSE R[n - 1] \cup {t[p].children[k] :
                                  <<p, k>> \in {<<q, j>> \in R[n - 1] \X (1..Cardinality(DOMAIN t)) :
                                                   j <= Len(t[q].children)}}
    IN R[Cardinality(DOMAIN t)]

CacheEntriesOf(id) ==
    {k \in 1..Len(repeat_expanded_node_cache) :
        get_instance_id(repeat_expanded_node_cache[k].instance_node) = id}

NestedRepeatLeaves(t) ==
    {<<l, inner, outer>> \in (DOMAIN t) \X RepeatIds(t) \X RepeatIds(t) :
        /\ t[l].kind = "Primitive"
        /\ t[l].children = <<>>
        /\ \E k \in 1..Len(t[inner].children) : t[inner].children[k] = l
        /\ \E k \in 1..Len(t[outer].children) : t[outer].children[k] = inner}

\* C3: a leaf inside a Repeat over n items nested in a Repeat over m items has
\* n*m expanded nodes after a tick, with pairwise distinct id_chains.
C3_NestedRepeatProduct ==
    JustTicked =>
       \A x \in NestedRepeatLeaves(tree) :
          /\ Cardinality(CacheEntriesOf(x[1])) = repeat_count[x[2]] * repeat_count[x[3]]
          /\ \A j, k \in CacheEntriesOf(x[1]) :
                j # k => repeat_expanded_node_cache[j].id_chain
                           # repeat_expanded_node_cache[k].id_chain

\* C3 witness: 2 x 2 expansions of the leaf
C3_Witness ==
    /\ JustTicked
    /\ tree = TreeNestedRepeat
    /\ repeat_count[1] = 2 /\ repeat_count[3] = 2
    /\ Cardinality(CacheEntriesOf(5)) = 4

\* C4 (as claimed): after a tick no two expanded nodes of the cache share an
\* id_chain, whatever the tree.
C4_IdChainsUnique ==
    JustTicked =>
       \A j, k \in 1..Len(repeat_expanded_node_cache) :
          j # k => repeat_expanded_node_cache[j].id_chain
                     # repeat_expanded_node_cache[k].id_chain

(***************************************************************************)
(* Properties of the ray caster                                            *)
(***************************************************************************)
\* cache positions of the expanded nodes whose parent is the root's
RootChildEntries ==
    {k \in 1..Len(repeat_expanded_node_cache) :
        repeat_expanded_node_cache[k].parent_repeat_expanded_node = 1}

\* the root's declared children are leaves and nothing clips
FlatUnclipped(t) ==
    /\ \A i \in DOMAIN t : ~t[i].clipping
    /\ \A k \in 1..Len(t[RootId].children) :
          /\ t[t[RootId].children[k]].kind = "Primitive"
          /\ t[t[RootId].children[k]].children = <<>>

\* C5 (as claimed): when two or more siblings under the root all pass their
\* own hit test and nothing clips, the ray returns the last-declared sibling.
C5_LastDeclaredSiblingWins ==
    (/\ ray.status = "done"
     /\ FlatUnclipped(tree)
     /\ Len(tree[RootId].children) >= 2
     /\ Cardinality(RootChildEntries) = Len(tree[RootId].children)
     /\ RootChildEntries \subseteq ray.hits)
    => /\ ray.ret # 0
       /\ get_instance_id(repeat_expanded_node_cache[ray.ret].instance_node)
            = tree[RootId].children[Len(tree[RootId].children)]

\* cache positions on the parent chain of position k (k excluded)
AncestorsOf(k) ==
    LET Up[j \in 0..Len(repeat_expanded_node_cache)] ==
            IF j = 0 THEN {}
            ELSE {j} \cup Up[repeat_expanded_node_cache[j].parent_repeat_expanded_node]
    IN Up[repeat_expanded_node_cache[k].parent_repeat_expanded_node]

\* the node passes its own hit test and so does each clipping ancestor
FullyPasses(k) ==
    /\ k \in ray.hits
    /\ \A a \in AncestorsOf(k) :
          is_clipping(repeat_expanded_node_cache[a].instance_node) => a \in ray.hits

\* C6: the ray never returns a node with a clipping ancestor, at any distance,
\* that fails its hit test; ancestors that do not clip never reject a node:
\* the first candidate that passes with all its clipping ancestors is returned.
C6_ClippingAncestorsRespected ==
    ray.status = "done" =>
       /\ ray.ret # 0 => FullyPasses(ray.ret)
       /\ \A j \in 1..Len(ray.nodes_ordered) :
             FullyPasses(ray.nodes_ordered[j]) =>
                \E i \in 1..j : ray.nodes_ordered[i] = ray.ret

\* C6 witness: X is returned under a clipping Frame that passes and a Group
\* that does not clip and fails
C6_Witness ==
    /\ ray.status = "done"
    /\ tree = TreeClip
    /\ ray.ret # 0
    /\ repeat_expanded_node_cache[ray.ret].id_chain = <<4>>
    /\ \E a \in AncestorsOf(ray.ret) :
          /\ ~is_clipping(repeat_expanded_node_cache[a].instance_node)
          /\ a \notin ray.hits
    /\ \E a \in AncestorsOf(ray.ret) :
          /\ is_clipping(repeat_expanded_node_cache[a].instance_node)
          /\ a \in ray.hits

\* C7 (as claimed): the candidates are the cache in reverse traversal order
\* without the root, and the root is never returned.
C7_RootExcluded ==
    ray.status = "done" =>
       /\ ray.ret # 1
       /\ Len(ray.nodes_ordered) = Len(repeat_expanded_node_cache) - 1
       /\ \A j \in 1..Len(ray.nodes_ordered) :
             ray.nodes_ordered[j] = Len(repeat_expanded_node_cache) + 1 - j

\* C8 (as claimed): the ray cast never aborts, whatever the cache holds, and
\* returns the first fully passing candidate or nothing.
C8_RayCastTotal ==
    /\ ray.status # "panic"
    /\ ray.status = "done" =>
          \/ /\ ray.ret = 0
             /\ \A j \in 1..Len(ray.nodes_ordered) : ~FullyPasses(ray.nodes_ordered[j])
          \/ \E j \in 1..Len(ray.nodes_ordered) :
                /\ ray.nodes_ordered[j] = ray.ret
                /\ FullyPasses(ray.ret)
                /\ \A i \in 1..(j - 1) : ~FullyPasses(ray.nodes_ordered[i])

(***************************************************************************)
(* Properties of the native patches                                        *)
(***************************************************************************)
\* positions in `messages` of the Update messages for `id`
UpdatesFor(messages, id) ==
    {k \in 1..Len(messages) : messages[k].tag = "Update" /\ messages[k].id = id}

\* the fields whose value differs between two evaluations
ChangedFields(before, after) == {f \in DOMAIN after : before[f] # after[f]}

\* a tick evaluates again a listener that an earlier tick installed and
\* evaluated: with no field changed since, the tick returns no Update for it;
\* with one field changed, it returns one Update whose patch holds the new
\* value of that field and nothing else
PatchDiffStep ==
    \A c \in DOMAIN native_listeners :
       (/\ frames_elapsed' = frames_elapsed + 1
        /\ c \in DOMAIN evaluated
        /\ c \in DOMAIN evaluated') =>
          LET changed == ChangedFields(evaluated[c], evaluated'[c])
              updates == UpdatesFor(native_render_queue', c)
          IN /\ changed = {} => updates = {}
             /\ Cardinality(changed) = 1 =>
                   /\ Cardinality(updates) = 1
                   /\ \A k \in updates :
                         \A f \in DOMAIN evaluated'[c] :
                            native_render_queue'[k].patch[f] =
                               IF f \in changed THEN <<evaluated'[c][f]>> ELSE <<>>

\* C9: two consecutive evaluations of a native primitive's patch with no
\* observable field changed enqueue no Update on the second; with exactly one
\* field changed they enqueue exactly one Update, which carries that field
\* and leaves every other optional field absent.
C9_PatchCarriesOnlyChanges == [][PatchDiffStep]_vars

\* C9 witness: a tick over a control mounted by an earlier tick returned one
\* Update and nothing else, and its patch holds one field
C9_Witness ==
    /\ JustTicked
    /\ frames_elapsed = 2
    /\ Len(native_render_queue) = 1
    /\ native_render_queue[1].tag = "Update"
    /\ Cardinality({f \in DOMAIN native_render_queue[1].patch :
                       native_render_queue[1].patch[f] # <<>>}) = 1

\* C10: the messages of each native id follow Create, Update*, Delete: no
\* Update or Delete before the Create, none after the Delete until a new
\* Create, and no second Create before the Delete.
C10_CreateUpdateDeleteOrder ==
    \A c \in DOMAIN native_phase : native_phase[c] # "error"

\* C10 witness: the first tick created, updated and deleted the control, the
\* second created it again and sent its first patch
C10_Witness ==
    /\ JustTicked
    /\ frames_elapsed = 2
    /\ Len(native_render_queue) = 2
    /\ native_render_queue[1].tag = "Create"
    /\ native_render_queue[2].tag = "Update"
    /\ <<1>> \in DOMAIN native_phase
    /\ native_phase[<<1>>] = "created"
    /\ <<1>> \notin prev_mounted

(***************************************************************************)
(* Properties of a tick, stated over the step it takes                     *)
(***************************************************************************)
\* the step is a completed tick
TickStep == frames_elapsed' = frames_elapsed + 1

\* positions of `cache` on the parent chain of position k, k included
SelfAndAncestors(cache, k) ==
    LET Up[j \in 0..Len(cache)] ==
            IF j = 0 THEN {}
            ELSE {j} \cup Up[cache[j].parent_repeat_expanded_node]
    IN Up[k]

\* the expanded node at position k is an expansion of a flagged instance or
\* lies beneath one
Flagged(cache, marked, k) ==
    \E a \in SelfAndAncestors(cache, k) :
       get_instance_id(cache[a].instance_node) \in marked

WillUnmountFired(log, chain) ==
    \E j \in 1..Len(log) : log[j] = [ev |-> "will_unmount", chain |-> chain]

\* C11 (as claimed): in the tick after mark_for_unmount(i) every expanded node
\* visited that expands i or lies beneath such a node fires will-unmount, and
\* its id_chain is outside the mounted set when the tick ends.
C11_FlaggedAreUnmounted ==
    [][TickStep =>
         \A k \in 1..Len(repeat_expanded_node_cache') :
            Flagged(repeat_expanded_node_cache', marked_for_unmount_set, k) =>
               /\ WillUnmountFired(events', repeat_expanded_node_cache'[k].id_chain)
               /\ repeat_expanded_node_cache'[k].id_chain \notin mounted_set']_vars

\* C11 restricted to trees: every instance under one parent
C11_FlaggedAreUnmountedInTrees ==
    [][(TickStep /\ IsTree(tree)) =>
         \A k \in 1..Len(repeat_expanded_node_cache') :
            Flagged(repeat_expanded_node_cache', marked_for_unmount_set, k) =>
               /\ WillUnmountFired(events', repeat_expanded_node_cache'[k].id_chain)
               /\ repeat_expanded_node_cache'[k].id_chain \notin mounted_set']_vars

NoWillUnmount(log) == \A j \in 1..Len(log) : log[j].ev # "will_unmount"

\* C12: after every completed tick the marked-for-unmount set is empty, and a
\* tick that starts with no flag set (the flags of an earlier tick included)
\* fires no will-unmount.
C12_FlagsLastOneTick ==
    /\ [](JustTicked => marked_for_unmount_set = {})
    /\ [][(TickStep /\ marked_for_unmount_set = {}) => NoWillUnmount(events')]_vars

\* C12 witness: the first tick unmounted A on a flag, the second tick, with
\* no new flag, mounts A again and fires no will-unmount
C12_Witness ==
    /\ JustTicked
    /\ tree = TreeOneChild
    /\ frames_elapsed = 2
    /\ marked_for_unmount_set = {}
    /\ <<0>> \in prev_mounted
    /\ <<1>> \notin prev_mounted
    /\ \E j \in 1..Len(events) : events[j] = [ev |-> "did_mount", chain |-> <<1>>]
    /\ NoWillUnmount(events)

\* the id_chains of the nodes a tick visited, in visit order
VisitedChains(log) ==
    LET F[j \in 0..Len(log)] ==
            IF j = 0 THEN <<>>
            ELSE IF log[j].ev = "compute_properties"
                 THEN Append(F[j - 1], log[j].chain)
                 ELSE F[j - 1]
    IN F[Len(log)]

\* C13: after a completed tick the cache holds one expanded node per visit of
\* that tick, in visit order, and nothing else (nothing of an earlier tick).
C13_CacheIsThisTicksVisits ==
    JustTicked =>
       [k \in 1..Len(repeat_expanded_node_cache) |->
           repeat_expanded_node_cache[k].id_chain] = VisitedChains(events)

\* C13 witness: the second tick over root [A, B] leaves its own three nodes
C13_Witness ==
    /\ JustTicked
    /\ tree = TreeTwoSiblings
    /\ frames_elapsed = 2
    /\ Len(repeat_expanded_node_cache) = 3
    /\ VisitedChains(events) = <<<<0>>, <<2>>, <<1>>>>

(***************************************************************************)
(* The native message queue across a tick                                  *)
(***************************************************************************)
\* the step is a tick that ran to its end
TickCompleted == Len(events') > 0 /\ ~aborted'

IsNative(chain) == tree[chain[1]].kind \in {"Dropdown", "Slider"}

\* the lifecycle step at which a message of this tag is enqueued
EnqueuingEvent(tag) ==
    IF tag = "Create" THEN "did_mount"
    ELSE IF tag = "Update" THEN "compute_native_patches"
    ELSE "will_unmount"

EnqueuingIndexes(log, message) ==
    {e \in 1..Len(log) : /\ log[e].ev = EnqueuingEvent(message.tag)
                         /\ log[e].chain = message.id}

\* where in the traversal a message was enqueued; the layer request comes
\* after the traversal; 0 when no step of the traversal accounts for it
EnqueuedAt(log, message) ==
    IF message.tag = "LayerAdd" THEN Len(log) + 1
    ELSE IF EnqueuingIndexes(log, message) = {} THEN 0
    ELSE CHOOSE e \in EnqueuingIndexes(log, message) : TRUE

HasMessage(messages, tag, id) ==
    \E k \in 1..Len(messages) : messages[k].tag = tag /\ messages[k].id = id

\* every mount and unmount of a native control in the log, and every
\* evaluation of an older listener that saw a changed value, has its message
AllEnqueuedReturned(log, messages, listeners, seen) ==
    \A e \in 1..Len(log) :
       IsNative(log[e].chain) =>
          /\ log[e].ev = "did_mount" => HasMessage(messages, "Create", log[e].chain)
          /\ log[e].ev = "will_unmount" => HasMessage(messages, "Delete", log[e].chain)
          /\ (/\ log[e].ev = "compute_native_patches"
              /\ log[e].chain \in DOMAIN listeners
              /\ log[e].chain \in DOMAIN seen
              /\ listeners[log[e].chain] #
                    [f \in DOMAIN seen[log[e].chain] |-> <<seen[log[e].chain][f]>>])
             => HasMessage(messages, "Update", log[e].chain)

\* C14: every completed tick returns what the queue held before it followed
\* by every message enqueued during it, in the order they were enqueued,
\* leaves the queue empty, and adds exactly one to frames_elapsed.
C14_TickDrainsQueue ==
    [][TickCompleted =>
         LET returned == native_render_queue'
             held == Len(native_message_queue)
         IN /\ frames_elapsed' = frames_elapsed + 1
            /\ native_message_queue' = <<>>
            /\ Len(returned) >= held
            /\ SubSeq(returned, 1, held) = native_message_queue
            /\ \A k \in (held + 1)..Len(returned) :
                  /\ EnqueuedAt(events', returned[k]) > 0
                  /\ \A j \in (held + 1)..(k - 1) :
                        EnqueuedAt(events', returned[j]) < EnqueuedAt(events', returned[k])
            /\ AllEnqueuedReturned(events', returned, native_listeners, evaluated')]_vars

\* C14 witness: the first tick over root [A, Dropdown, B] with one render
\* context returned the Create, the first Update and the layer request, in
\* that order, and left the queue empty
C14_Witness ==
    /\ JustTicked
    /\ tree = TreeLayers
    /\ frames_elapsed = 1
    /\ Len(native_render_queue) = 3
    /\ native_render_queue[1].tag = "Create"
    /\ native_render_queue[2].tag = "Update"
    /\ native_render_queue[3].tag = "LayerAdd"
    /\ native_message_queue = <<>>

\* the render layers a traversal discovered: its nodes draw on the render
\* contexts 0..depth
DiscoveredLayers(info) == get_depth(info) + 1

LayerAdds(messages) == {k \in 1..Len(messages) : messages[k].tag = "LayerAdd"}

\* C15: a completed tick returns a layer request exactly when the layers its
\* traversal discovered are more than the render contexts it was given; the
\* request is the only one and asks for the layers that are missing.
C15_LayerAddWhenExceeded ==
    JustTicked =>
       /\ LayerAdds(native_render_queue) # {} <=> DiscoveredLayers(layer_info) > rcs
       /\ \A k \in LayerAdds(native_render_queue) :
             /\ LayerAdds(native_render_queue) = {k}
             /\ native_render_queue[k].num_layers_to_add =
                   DiscoveredLayers(layer_info) - rcs

\* C15 witness: a tick over root [A, Dropdown, B] with one render context
\* discovered two layers and asked for one more
C15_Witness ==
    /\ JustTicked
    /\ tree = TreeLayers
    /\ rcs = 1
    /\ DiscoveredLayers(layer_info) = 2
    /\ LayerAdds(native_render_queue) # {}

(***************************************************************************)
(* Layout across ticks                                                     *)
(***************************************************************************)
\* the bounds of the container of the k-th visited node, as they are now:
\* the viewport for the root, the bounds of its parent otherwise
ContainerBounds(cache, k) ==
    IF cache[k].parent_repeat_expanded_node = 0 THEN viewport_tab
    ELSE cache[cache[k].parent_repeat_expanded_node].tab.bounds

\* C16: after a tick, every node whose width is a percentage has that
\* percentage of the width its container has in this tick, whatever the
\* viewport was in the ticks before: with the viewport W1 wide in one tick and
\* W2 wide in the next, a 50% child is W1/2 and then W2/2 wide.
C16_PercentOfCurrentBounds ==
    JustTicked =>
       \A k \in 1..Len(repeat_expanded_node_cache) :
          LET width == layout[repeat_expanded_node_cache[k].instance_node[1]].width
          IN width.unit = "Percent" =>
                repeat_expanded_node_cache[k].tab.bounds[1] * 100 =
                   ContainerBounds(repeat_expanded_node_cache, k)[1] * width.n

\* C16 witness: the second tick ran under a viewport 200 wide, where the
\* engine was built with one 100 wide, and the 50% node beneath the root is
\* 100 wide
C16_Witness ==
    /\ JustTicked
    /\ frames_elapsed = 2
    /\ viewport_tab[1] = 200
    /\ layout[1].width = Percent(50)
    /\ Len(repeat_expanded_node_cache) = 3
    /\ repeat_expanded_node_cache[2].tab.bounds[1] = 100

\* a node is placed by a translation in pixels and nothing else
PureTranslation(node) ==
    /\ node.rotate = 0
    /\ node.x.unit = "Pixels"
    /\ node.y.unit = "Pixels"
    /\ node.transform = Transform2DDefault

\* the node moved to (x, y) in its container
PlacedAt(node, x, y) == [node EXCEPT !.x = Pixels(x), !.y = Pixels(y)]

\* C17: with a parent and a child placed by pure translations, the transform
\* the child accumulated in the tick is the transform of the same child
\* placed at the sum of the two translations under the same parent left
\* where its container puts it.
C17_TranslationsCompose ==
    JustTicked =>
       \A k \in 1..Len(repeat_expanded_node_cache) :
          LET child == repeat_expanded_node_cache[k]
              p == child.parent_repeat_expanded_node
          IN (/\ p # 0
              /\ repeat_expanded_node_cache[p].parent_repeat_expanded_node # 0) =>
             LET parent == repeat_expanded_node_cache[p]
                 c == layout[child.instance_node[1]]
                 n == layout[parent.instance_node[1]]
                 outer == repeat_expanded_node_cache[
                              parent.parent_repeat_expanded_node].tab
             IN (PureTranslation(c) /\ PureTranslation(n)) =>
                   child.tab.transform =
                      compute_tab(PlacedAt(c, c.x.n + n.x.n, c.y.n + n.y.n),
                                  compute_tab(PlacedAt(n, 0, 0), outer)).transform

\* C17 witness: a tick placed C at (1, 0) beneath P translated by (1, 1); C
\* accumulated the translation by (2, 1)
C17_Witness ==
    /\ JustTicked
    /\ tree = TreeLayout
    /\ PureTranslation(layout[1])
    /\ layout[1].x = Pixels(1)
    /\ layout[1].y = Pixels(1)
    /\ layout[2].x = Pixels(1)
    /\ layout[2].y = Pixels(0)
    /\ Len(repeat_expanded_node_cache) = 3
    /\ repeat_expanded_node_cache[3].tab.transform = affine_translate(2, 1)

(***************************************************************************)
(* Property updates                                                        *)
(***************************************************************************)
\* the property is backed by an expression whose value has another type
DowncastFails(table, property) ==
    /\ property.vtable_id # Literal
    /\ table[property.vtable_id[1]].type # property.type

\* C18: when the value of the expression behind the property that is
\* updated next cannot be downcast to the type of the property, the update
\* panics and no property is assigned; after a panic nothing is processed any
\* more, neither a later property nor anything else.
C18_DowncastFailureIsFatal ==
    [][/\ ~aborted
       /\ (/\ property_cursor <= Len(node_properties)
           /\ DowncastFails(expression_table, node_properties[property_cursor]))
          => /\ aborted'
             /\ node_properties' = node_properties
             /\ property_cursor' = property_cursor]_vars

\* C18 witness: the first property was assigned, the update of the second
\* panicked on a value of another type, and the third, backed by an
\* expression too, was never assigned
C18_Witness ==
    /\ aborted
    /\ Len(node_properties) >= 3
    /\ property_cursor = 2
    /\ node_properties[1].value = "computed"
    /\ DowncastFails(expression_table, node_properties[2])
    /\ node_properties[2].value = "default"
    /\ node_properties[3].vtable_id # Literal
    /\ ~DowncastFails(expression_table, node_properties[3])
    /\ node_properties[3].value = "default"

(***************************************************************************)
(* Handlers dispatched without a stack frame                               *)
(***************************************************************************)
\* the log holds, after position e, the dispatch of the handlers of the chain
DispatchedAfter(log, e, ev, chain) ==
    e < Len(log) /\ log[e + 1].ev = ev /\ log[e + 1].chain = chain

\* the step of a tick stopped at position e of its log; where it stopped at
\* the mount of the chain, the chain was not marked mounted
AbortedAt(log, e, panicked, mounted_before, mounted_after, chain) ==
    /\ panicked
    /\ e = Len(log)
    /\ (log[e].ev = "did_mount" /\ chain \notin mounted_before)
          => chain \notin mounted_after

C19_WillRenderAborts ==
    [][\A e \in 1..Len(events') :
          (/\ events'[e].ev = "will_render"
           /\ tree[events'[e].chain[1]].registry) =>
             \/ DispatchedAfter(events', e, "will_render_handlers", events'[e].chain)
             \/ aborted' /\ e = Len(events')]_vars

(***************************************************************************)
(* Pointer events                                                          *)
(***************************************************************************)
\* the last operation dispatched a pointer event
Dispatched ==
    Len(events) > 0 /\ events[1].ev \in {"dispatch_click", "dispatch_scroll"}

DispatchedEvent == IF events[1].ev = "dispatch_click" THEN "click" ELSE "scroll"

\* the handlers an expanded node has for an event: those of the registry of
\* its instance, none without a registry
HandlersOf(cache, k, event) ==
    IF tree[cache[k].instance_node[1]].registry
    THEN 1..handlers[cache[k].instance_node[1]][event]
    ELSE {}

\* C20: a pointer event dispatched on an expanded node invokes the handlers
\* of that event of the node and of each of its ancestors up to the root,
\* each once and no other, the handlers of a node before those of its parent
\* and in their order; a node without a registry or without a handler for
\* the event adds nothing and the ancestors above it are still reached; the
\* parent chain of every expanded node ends at the root.
C20_BubblesToRoot ==
    /\ \A k \in 1..Len(repeat_expanded_node_cache) :
          /\ repeat_expanded_node_cache[k].parent_repeat_expanded_node < k
          /\ 1 \in SelfAndAncestors(repeat_expanded_node_cache, k)
    /\ Dispatched =>
          LET cache == repeat_expanded_node_cache
              path == SelfAndAncestors(cache, events[1].node)
              invoked == Tail(events)
          IN /\ \A n \in path : \A h \in HandlersOf(cache, n, DispatchedEvent) :
                   Cardinality({e \in 1..Len(invoked) :
                                   invoked[e].node = n /\ invoked[e].handler = h}) = 1
             /\ \A e \in 1..Len(invoked) :
                   /\ invoked[e].ev = DispatchedEvent
                   /\ invoked[e].node \in path
                   /\ invoked[e].handler \in
                         HandlersOf(cache, invoked[e].node, DispatchedEvent)
             /\ \A e1, e2 \in 1..Len(invoked) :
                   e1 < e2 =>
                      \/ invoked[e2].node \in
                            SelfAndAncestors(cache, invoked[e1].node) \ {invoked[e1].node}
                      \/ /\ invoked[e1].node = invoked[e2].node
                         /\ invoked[e1].handler < invoked[e2].handler

\* C20 witness: a click on B of root [A [B]], A without a registry, invoked
\* the two handlers of B and then the handler of the root
C20_Witness ==
    /\ Dispatched
    /\ tree = TreeBubble
    /\ events[1].ev = "dispatch_click"
    /\ events[1].node = 3
    /\ handlers[2].click = 2
    /\ handlers[0].click = 1
    /\ Len(events) = 4
    /\ events[2].node = 3
    /\ events[3].node = 3
    /\ events[4].node = 1

(***************************************************************************)
(* The registry's id counter and the stack of frames holding slot content. *)
(***************************************************************************)

\* what an operation on the runtime leaves alone
RuntimeUnchanged ==
    /\ prev_mounted' = mounted_set
    /\ ray' = NoRay
    /\ native_render_queue' = <<>>
    /\ layer_info' = new_layer_info
    /\ UNCHANGED <<tree, repeat_count, frames_elapsed, repeat_expanded_node_cache,
                   mounted_set, marked_for_unmount_set, aborted, properties,
                   native_listeners, native_message_queue, evaluated, native_phase,
                   rcs, tvars, pvars, hvars, ovars>>

\* InstanceRegistry::mint_id, called when an instance node is constructed
MintId ==
    /\ Len(minted) < MaxMinted
    /\ LET r == mint_id(next_id)
       IN /\ next_id' = r.next_id
          /\ minted' = Append(minted, r.new_id)
    /\ events' = <<>>
    /\ adoptee' = NoLookup
    /\ UNCHANGED <<stack, rendering_children>>
    /\ RuntimeUnchanged

\* Runtime::push_stack_frame: the slot content is expanded, then the frame is
\* pushed with the frame on top as its parent
PushStackFrame ==
    /\ Len(stack) < MaxStack
    /\ \E unexpanded_adoptees \in AdopteeLists, should_skip_adoption \in BOOLEAN :
          LET parent == Len(stack)
              entry == [rendering_children |-> rendering_children,
                        events |-> <<[ev |-> "push_stack_frame",
                                      chain |-> unexpanded_adoptees]>>]
              expanded == flatten_adoptees(entry, unexpanded_adoptees, FALSE)
          IN /\ stack' = push_stack_frame(stack,
                             StackFrame_new(expanded.adoptees, parent, should_skip_adoption))
             /\ rendering_children' = expanded.st.rendering_children
             /\ events' = expanded.st.events
    /\ adoptee' = NoLookup
    /\ UNCHANGED <<next_id, minted>>
    /\ RuntimeUnchanged

\* Runtime::pop_stack_frame
PopStackFrame ==
    /\ Len(stack) > 0
    /\ stack' = pop_stack_frame(stack)
    /\ events' = <<>>
    /\ adoptee' = NoLookup
    /\ UNCHANGED <<next_id, minted, rendering_children>>
    /\ RuntimeUnchanged

\* Runtime::peek_stack_frame; the frame returned is kept as what the
\* operation returned
PeekStackFrame ==
    /\ adoptee' = [n |-> 0 - 1, ret |-> <<>>, peeked |-> peek_stack_frame(stack)]
    /\ events' = <<>>
    /\ UNCHANGED <<stack, next_id, minted, rendering_children>>
    /\ RuntimeUnchanged

\* a slot asks the frame on top of the stack for its n-th adoptee
NthAdoptee ==
    /\ Len(stack) > 0
    /\ \E n \in 0..MaxIndex :
          adoptee' = [n |-> n, ret |-> nth_adoptee(peek_stack_frame(stack)[1], n)]
    /\ events' = <<>>
    /\ UNCHANGED <<stack, next_id, minted, rendering_children>>
    /\ RuntimeUnchanged

InitRuntime == InitWith({TreeRootOnly})

NextRuntime ==
    \/ MintId
    \/ PushStackFrame
    \/ PopStackFrame
    \/ PeekStackFrame
    \/ NthAdoptee

SpecRuntime == InitRuntime /\ [][NextRuntime]_vars

\* C21: over the mint_id calls made on one registry, the first id returned is
\* 0, every later one is the one before it plus one, so that the ids strictly
\* increase and none is returned twice
C21_MintedIdsIncrease ==
    /\ Len(minted) > 0 => minted[1] = 0
    /\ \A k \in 2..Len(minted) : minted[k] = minted[k - 1] + 1
    /\ \A j, k \in 1..Len(minted) : j < k => minted[j] < minted[k]
    /\ next_id = Len(minted)

\* three ids have been minted
C21_Witness == Len(minted) >= 3

\* the list of the frame the last lookup was made on
LookedUpList == stack[Len(stack)].adoptees

\* C22: nth_adoptee(n) returns the n-th element (from 0) of the frame's
\* flattened adoptee list when n is less than the list's length, and returns
\* no value, without aborting, for every n at or beyond the length, the
\* empty list included
C22_NthAdopteeIndexes ==
    adoptee.n >= 0 =>
        /\ ~aborted
        /\ adoptee.n < Len(LookedUpList) => adoptee.ret = <<LookedUpList[adoptee.n + 1]>>
        /\ adoptee.n >= Len(LookedUpList) => adoptee.ret = <<>>

\* a lookup beyond the end of a list that holds adoptees returned no value
C22_Witness ==
    /\ adoptee.n >= 0
    /\ Len(LookedUpList) > 0
    /\ adoptee.n >= Len(LookedUpList)
    /\ adoptee.ret = <<>>

\* the last operation pushed a stack frame
Pushed == Len(events) > 0 /\ events[1].ev = "push_stack_frame"

\* the nodes of a list with every transparent node replaced, in place, by
\* the nodes its children stand for
RECURSIVE SlotContent(_)
SlotContent(list) ==
    IF list = <<>> THEN <<>>
    ELSE (IF AdopteeNodes[Head(list)].should_flatten
          THEN SlotContent(AdopteeNodes[Head(list)].children)
          ELSE <<Head(list)>>) \o SlotContent(Tail(list))

\* the nodes whose properties the last operation computed, in order
ComputedAdoptees ==
    LET F[k \in 0..Len(events)] ==
            IF k = 0 THEN <<>>
            ELSE IF events[k].ev = "compute_properties"
                 THEN Append(F[k - 1], events[k].chain[1])
                 ELSE F[k - 1]
    IN F[Len(events)]

\* C23: push_stack_frame stores as the frame's adoptees the list obtained by
\* recursively replacing every transparent adoptee by its rendering children,
\* read after that adoptee's properties were computed: no stored node is
\* transparent, and the stored nodes stand in source order
C23_PushFlattensAdoptees ==
    Pushed =>
        LET stored == stack[Len(stack)].adoptees
        IN /\ \A k \in 1..Len(stored) : ~adoptee_should_flatten(stored[k])
           /\ stored = SlotContent(events[1].chain)
           /\ \A k \in 1..Len(ComputedAdoptees) :
                 /\ adoptee_should_flatten(ComputedAdoptees[k])
                 /\ rendering_children[ComputedAdoptees[k]]
                        = AdopteeNodes[ComputedAdoptees[k]].children

\* a frame was pushed with a Repeat whose children hold a Conditional, ahead
\* of a leaf: the leaves of both stand before that leaf
C23_Witness ==
    /\ Pushed
    /\ events[1].chain = <<1, 8>>
    /\ stack[Len(stack)].adoptees = <<2, 4, 8>>
    /\ ComputedAdoptees = <<1, 3>>

\* the frames below the top of the stack that are not shadow frames
NonShadowAncestors == {j \in 1..(Len(stack) - 1) : ~stack[j].shadow_scope_only}

\* the adoptee list of the nearest frame below the top that is not a shadow
\* frame; the empty list when there is none
AncestorAdoptees ==
    IF NonShadowAncestors = {} THEN <<>>
    ELSE stack[CHOOSE j \in NonShadowAncestors :
                   \A i \in NonShadowAncestors : i <= j].adoptees

\* C24: an adoptee lookup made while a shadow frame is on top of the stack
\* resolves against the adoptee list of the nearest ancestor frame that is
\* not a shadow frame, never against the shadow frame's own list, and yields
\* nothing when there is no such ancestor
C24_LookupSkipsShadowFrames ==
    (adoptee.n >= 0 /\ stack[Len(stack)].shadow_scope_only) =>
        adoptee.ret = IF adoptee.n < Len(AncestorAdoptees)
                      THEN <<AncestorAdoptees[adoptee.n + 1]>>
                      ELSE <<>>

\* recurse_get_adoptees, asked from the parent of a shadow frame on top of the
\* stack, yields the list of the nearest ancestor that is not a shadow frame
C24_RecurseSkipsShadowFrames ==
    (Len(stack) > 0 /\ stack[Len(stack)].shadow_scope_only) =>
        recurse_get_adoptees(stack, stack[Len(stack)].parent)
            = IF NonShadowAncestors = {} THEN <<>> ELSE <<AncestorAdoptees>>

(***************************************************************************)
(* The manifest editor's commands and their undo.                          *)
(***************************************************************************)

\* the editor as one record, and the record written back
orm_of_state ==
    [manifest |-> manifest, undo_stack |-> undo_stack, redo_stack |-> redo_stack,
     next_command_id |-> next_command_id, manifest_version |-> manifest_version,
     reload_queue |-> reload_queue, undone |-> <<>>, err |-> FALSE]

orm_written(orm, op, command_id, fails) ==
    /\ manifest' = orm.manifest
    /\ undo_stack' = orm.undo_stack
    /\ redo_stack' = orm.redo_stack
    /\ next_command_id' = orm.next_command_id
    /\ manifest_version' = orm.manifest_version
    /\ reload_queue' = orm.reload_queue
    /\ undone' = [op |-> op, command_id |-> command_id, fails |-> fails,
                  before |-> undo_stack, ids |-> orm.undone, err |-> orm.err]
    /\ UNCHANGED <<evars, nvars, lvars, tvars, pvars, hvars, rvars>>

\* the commands on either stack
Stacked(stk) == {stk[k] : k \in 1..Len(stk)}

\* PaxManifestORM::execute_command with a command that executes
ExecuteCommand ==
    /\ next_command_id < MaxCommands
    /\ manifest_version < MaxVersion
    /\ \E undoable \in BOOLEAN, reload_type \in {<<>>, <<"FullEdit">>} :
          orm_written(execute_command(orm_of_state, undoable, reload_type),
                      "execute_command", reload_type, {})

\* PaxManifestORM::undo
Undo ==
    /\ undo_stack # <<>>
    /\ manifest_version < MaxVersion
    /\ \E fails \in SUBSET Stacked(undo_stack) :
          orm_written(undo(orm_of_state, fails), "undo", <<>>, fails)

\* PaxManifestORM::redo
Redo ==
    /\ redo_stack # <<>>
    /\ manifest_version < MaxVersion
    /\ \E fails \in SUBSET Stacked(redo_stack) :
          orm_written(redo(orm_of_state, fails), "redo", <<>>, fails)

\* PaxManifestORM::undo_until
UndoUntil ==
    /\ manifest_version < MaxVersion
    /\ \E command_id \in {<<>>} \cup {<<id>> : id \in 0..(MaxCommands - 1)},
          fails \in SUBSET Stacked(undo_stack) :
             orm_written(undo_until(orm_of_state, command_id, fails), "undo_until",
                         command_id, fails)

\* PaxManifestORM::redo_including
RedoIncluding ==
    /\ manifest_version < MaxVersion
    /\ \E command_id \in 0..(MaxCommands - 1), fails \in SUBSET Stacked(redo_stack) :
          orm_written(redo_including(orm_of_state, command_id, fails), "redo_including",
                      <<command_id>>, fails)

InitOrm == InitWith({TreeRootOnly})

NextOrm ==
    \/ ExecuteCommand
    \/ Undo
    \/ Redo
    \/ UndoUntil
    \/ RedoIncluding

SpecOrm == InitOrm /\ [][NextOrm]_vars

\* the last operation was an undo_until in which no undo failed
UndidUntil ==
    /\ undone.op = "undo_until"
    /\ undone.fails \cap Stacked(undone.before) = {}

\* the position of the command named on the undo stack as it was, 0 when the
\* argument was None or names no command of the stack
TargetPosition ==
    IF \E k \in 1..Len(undone.before) : <<undone.before[k]>> = undone.command_id
    THEN CHOOSE k \in 1..Len(undone.before) : <<undone.before[k]>> = undone.command_id
    ELSE 0

\* C25: undo_until(Some(id)) undoes commands one at a time, most recent first,
\* and stops with command id on top of the undo stack, that command still
\* applied; when id is not on the undo stack, or the argument is None, every
\* command of the undo stack is undone; it makes no more undos than the
\* stack held commands, so it terminates
C25_UndoUntilStopsAtCommand ==
    UndidUntil =>
        /\ ~undone.err
        /\ undo_stack = SubSeq(undone.before, 1, TargetPosition)
        /\ Len(undone.ids) = Len(undone.before) - TargetPosition
        /\ \A k \in 1..Len(undone.ids) :
              undone.ids[k] = undone.before[Len(undone.before) + 1 - k]
        /\ \A k \in 1..Len(undone.ids) : undone.ids[k] \notin manifest
        /\ TargetPosition > 0 =>
              /\ undo_stack[Len(undo_stack)] = undone.command_id[1]
              /\ undone.command_id[1] \in manifest
        /\ TargetPosition = 0 => undo_stack = <<>>

\* two commands were undone, the second most recent last, and the command
\* named is left on top of the undo stack
C25_Witness ==
    /\ UndidUntil
    /\ TargetPosition > 0
    /\ Len(undone.ids) = 2

(***************************************************************************)
(* The order of the lifecycle calls inside one visit.  A visit opens with  *)
(* its compute_properties call and closes with its did_render call; the    *)
(* visits of the descendants lie nested inside it.                         *)
(***************************************************************************)
\* per position of the log, how many visits are open at that call
Levels(log) ==
    [k \in 1..Len(log) |->
        Cardinality({j \in 1..k : log[j].ev = "compute_properties"})
            - Cardinality({j \in 1..(k - 1) : log[j].ev = "did_render"})]

\* the positions that open a visit
VisitStarts(log) == {s \in 1..Len(log) : log[s].ev = "compute_properties"}

\* the position that closes the visit opened at s
VisitEnd(log, lv, s) ==
    CHOOSE e \in s..Len(log) :
        /\ log[e].ev = "did_render"
        /\ lv[e] = lv[s]
        /\ \A f \in s..(e - 1) : ~(log[f].ev = "did_render" /\ lv[f] = lv[s])

\* the visits of a log: where each opens and closes, the calls made on its
\* own node and the calls made on its descendants
Visits(log) ==
    {[start |-> s, end |-> e,
      own |-> {k \in s..e : lv[k] = lv[s]},
      descendants |-> {k \in s..e : lv[k] > lv[s]}] :
        <<lv, s, e>> \in
            {<<l[1], l[2], VisitEnd(log, l[1], l[2])>> :
                l \in {Levels(log)} \X VisitStarts(log)}}

\* the own calls of a visit that are one of evs
OwnCallsOf(log, visit, evs) == {k \in visit.own : log[k].ev \in evs}

MountCalls == {"did_mount", "did_mount_handlers"}

WillRenderCalls == {"will_render", "will_render_handlers"}

\* C26: within one visit the node's properties are recomputed before its
\* mount handlers fire, the mount handlers (fired when the id_chain is not
\* mounted) fire before the will-render handlers, and will-render fires
\* before any lifecycle call of any descendant
C26_PropertiesMountWillRender ==
    JustTicked =>
        \A visit \in Visits(events) :
           \A mounts \in {OwnCallsOf(events, visit, MountCalls)},
              will_renders \in {OwnCallsOf(events, visit, WillRenderCalls)} :
                 /\ \A k \in visit.own : events[k].chain = events[visit.start].chain
                 /\ \A m \in mounts : visit.start < m
                 /\ (mounts = {}) <=> Live(events[visit.start].chain, visit.start)
                 /\ \E w \in will_renders : events[w].ev = "will_render"
                 /\ \A m \in mounts, w \in will_renders : m < w
                 /\ \A w \in will_renders, d \in visit.descendants : w < d

\* a visit has fired its mount handlers and its will-render handlers and has
\* gone on to visit descendants
C26_Witness ==
    /\ JustTicked
    /\ \E visit \in Visits(events) :
          /\ OwnCallsOf(events, visit, {"did_mount_handlers"}) # {}
          /\ OwnCallsOf(events, visit, {"will_render_handlers"}) # {}
          /\ visit.descendants # {}

\* C27: within one visit the native patches are computed and the node is
\* rendered only after the visit of every descendant has finished; will-unmount,
\* when it fires, fires after the node's render and before its did-render; and
\* did-render is the last call of the visit
C27_RenderUnmountDidRender ==
    JustTicked =>
        \A visit \in Visits(events) :
           \A renders \in {OwnCallsOf(events, visit, {"compute_native_patches", "render"})},
              unmounts \in {OwnCallsOf(events, visit, {"will_unmount"})} :
                 /\ \E r \in renders : events[r].ev = "render"
                 /\ \E r \in renders : events[r].ev = "compute_native_patches"
                 /\ \A r \in renders, d \in visit.descendants : d < r
                 /\ \A r \in renders, u \in unmounts : r < u
                 /\ \A u \in unmounts : u < visit.end
                 /\ OwnCallsOf(events, visit, {"did_render"}) = {visit.end}
                 /\ \A k \in visit.own \cup visit.descendants : k <= visit.end

\* a visit with descendants has rendered its node and fired will-unmount
C27_Witness ==
    /\ JustTicked
    /\ \E visit \in Visits(events) :
          /\ visit.descendants # {}
          /\ OwnCallsOf(events, visit, {"will_unmount"}) # {}
          /\ OwnCallsOf(events, visit, {"render"}) # {}

\* the node a visit is made on: the k-th visit of a tick makes the k-th
\* expanded node of the cache
RefOf(visit) ==
    repeat_expanded_node_cache[
        Cardinality({s \in VisitStarts(events) : s <= visit.start})].instance_node

\* the visits made on the children of the node of `visit`
DirectChildren(visits, visit) ==
    {w \in visits :
        /\ visit.start < w.start /\ w.end < visit.end
        /\ ~\E x \in visits : /\ visit.start < x.start /\ x.end < visit.end
                              /\ x.start < w.start /\ w.end < x.end}

\* C28: the children of every node are traversed last declared first: of two
\* children of one node, every cache insertion and lifecycle call of the
\* subtree of the one declared later is made before any of the subtree of the
\* one declared earlier
C28_LastDeclaredFirst ==
    JustTicked =>
        \A visits \in {Visits(events)} :
           \A visit \in visits :
              \A children \in {get_rendering_children(RefOf(visit))},
                 kids \in {DirectChildren(visits, visit)} :
                    /\ Cardinality(kids) = Len(children)
                    /\ \A w \in kids : \E i \in 1..Len(children) : children[i] = RefOf(w)
                    /\ \A later, earlier \in kids :
                          (\E i, j \in 1..Len(children) :
                              /\ i < j
                              /\ children[i] = RefOf(earlier)
                              /\ children[j] = RefOf(later))
                          => later.end < earlier.start

\* a node has two children visited, one of them with descendants of its own
C28_Witness ==
    /\ JustTicked
    /\ \E visits \in {Visits(events)} :
          \E visit \in visits :
             /\ Cardinality(DirectChildren(visits, visit)) >= 2
             /\ \E w \in DirectChildren(visits, visit) : w.descendants # {}

\* the place in the cache of the expanded node a visit made
IndexOf(visit) == Cardinality({s \in VisitStarts(events) : s <= visit.start})

\* the node reached from the k-th cached node by following n parent links,
\* 0 once the links have run out
NthAncestor(cache, k, n) ==
    LET F[m \in 0..n] ==
            IF m = 0 THEN k
            ELSE IF F[m - 1] = 0 THEN 0
            ELSE cache[F[m - 1]].parent_repeat_expanded_node
    IN F[n]

\* C29: in the cache of a tick the parent link of each expanded node is the
\* expanded node made, in the same tick, by the visit the node's own visit was
\* started from; the root has no parent; and following the parent links from
\* any cached node reaches the root in finitely many steps
C29_ParentLinksMirrorTraversal ==
    JustTicked =>
        \A visits \in {Visits(events)}, cache \in {repeat_expanded_node_cache} :
           /\ \A visit \in visits :
                 \A w \in DirectChildren(visits, visit) :
                    cache[IndexOf(w)].parent_repeat_expanded_node = IndexOf(visit)
           /\ \A visit \in visits :
                 (~\E u \in visits : u.start < visit.start /\ visit.end < u.end)
                    => /\ IndexOf(visit) = 1
                       /\ cache[1].parent_repeat_expanded_node = 0
           /\ \A k \in 1..Len(cache) :
                 /\ cache[k].parent_repeat_expanded_node \in 0..(k - 1)
                 /\ \E n \in 0..(Len(cache) - 1) : NthAncestor(cache, k, n) = 1

\* the cache holds a node two links below the root and a node whose parent
\* is not the node cached just before it
C29_Witness ==
    /\ JustTicked
    /\ \E k \in 1..Len(repeat_expanded_node_cache) :
          repeat_expanded_node_cache[k].parent_repeat_expanded_node > 1
    /\ \E k \in 1..Len(repeat_expanded_node_cache) :
          repeat_expanded_node_cache[k].parent_repeat_expanded_node \notin {0, k - 1}

\* the layer depth a visit used for its node
DepthOf(visit) ==
    events[CHOOSE k \in visit.own : events[k].ev = "compute_native_patches"].depth

\* C30: the layer depth used for a node is a reduction over the node's own
\* subtree, the maximum of its children's depths plus one if the node starts a
\* new render layer, whatever was visited before it: a node without children
\* has a depth of at most one, and two such nodes of one layer type have the
\* same depth
C30_DepthIsOfOwnSubtree ==
    JustTicked =>
        \A visits \in {Visits(events)} :
           \A v, w \in visits :
              (v.descendants = {} /\ w.descendants = {})
                 => /\ DepthOf(v) <= 1
                    /\ get_layer_type(RefOf(v)) = get_layer_type(RefOf(w))
                          => DepthOf(v) = DepthOf(w)

\* the depth used for a node is the depth the traversal has come to: that of
\* the node visited just before it, one more when the node draws on a drawing
\* layer and the last node that asked for a layer asked for a native one
C30_DepthFollowsVisitOrder ==
    JustTicked =>
        \A visits \in {Visits(events)} :
           \A v \in visits :
              \A before \in {{w \in visits : w.end < v.end}} :
                 \A previous \in {IF before = {} THEN 0
                                  ELSE DepthOf(CHOOSE w \in before :
                                                  \A x \in before : x.end <= w.end)} :
                    DepthOf(v) \in {previous, previous + 1}

(***************************************************************************)
(* Viewport culling                                                        *)
(***************************************************************************)
\* a distance that carries a node past the largest viewport
BeyondViewport == 100 * (MaxViewport + 1)

\* the layouts of root [P [C]] with P inside the viewport or carried past it,
\* turned or not, and C left where P is, carried past the viewport, or
\* carried back by as much
CullLayoutInputs ==
    {(0 :> NodeLayoutDefault) @@ (1 :> P) @@ (2 :> C) :
        P \in {NodeLayout(Percent(100), Percent(100), Pixels(dx), Pixels(0), r) :
                  dx \in {0, BeyondViewport}, r \in QuarterTurns},
        C \in {NodeLayout(Percent(50), Percent(100), Pixels(x), Pixels(0), 0) :
                  x \in {0, BeyondViewport, 0 - BeyondViewport}}}

InitCull ==
    /\ InitEngine({TreeLayout}, OneLayer)
    /\ viewport_tab = ViewportDefault
    /\ layout \in CullLayoutInputs
    /\ InitInputs

\* ticks over nodes inside and outside the viewport, under a host that
\* resizes the viewport and flags instances for unmount
NextCull ==
    \/ TickSteady
    \/ SetViewportSize
    \/ MarkForUnmount

SpecCull == InitCull /\ [][NextCull]_vars

\* the calls of one kind a visit made on its own node
OwnCallsNamed(log, visit, ev) == {j \in visit.own : log[j].ev = ev}

\* C31: for a node whose bounds do not intersect the viewport the tick skips
\* the node's own render call and nothing else: its properties are computed,
\* it is mounted when it was not, will-render fires, the node is cached, all
\* its children are visited, its native patches are computed, will-unmount
\* fires when it is flagged, and did-render fires, as for a node inside the
\* viewport
C31_CullSkipsOnlyRender ==
    [][(TickStep /\ TickCompleted) =>
         \A visits \in {Visits(events')} :
            \A v \in visits :
               \A k \in {Cardinality({s \in VisitStarts(events') : s <= v.start})} :
                  \A node \in {repeat_expanded_node_cache'[k]} :
                     /\ (OwnCallsNamed(events', v, "render") = {})
                           <=> ~intersects(node.tab,
                                           TransformAndBounds(AffineDefault, viewport_tab))
                     /\ Cardinality(OwnCallsNamed(events', v, "render")) <= 1
                     /\ \A ev \in {"compute_properties", "will_render", "cache",
                                   "compute_native_patches", "did_render"} :
                           Cardinality(OwnCallsNamed(events', v, ev)) = 1
                     /\ (OwnCallsNamed(events', v, "did_mount") # {})
                           <=> node.id_chain \notin mounted_set
                     /\ (OwnCallsNamed(events', v, "will_unmount") # {})
                           <=> Flagged(repeat_expanded_node_cache', marked_for_unmount_set, k)
                     /\ (node.id_chain \in mounted_set')
                           <=> ~Flagged(repeat_expanded_node_cache', marked_for_unmount_set, k)
                     /\ Cardinality(DirectChildren(visits, v))
                           = Len(get_rendering_children(node.instance_node))]_vars

\* a node outside the viewport was visited and not rendered, fired its
\* will-unmount, and its child, inside the viewport, was rendered
C31_Witness ==
    /\ JustTicked
    /\ \E v \in Visits(events) :
          /\ OwnCallsNamed(events, v, "render") = {}
          /\ OwnCallsNamed(events, v, "will_unmount") # {}
          /\ OwnCallsNamed(events, v, "compute_native_patches") # {}
          /\ \E d \in v.descendants : events[d].ev = "render"

(***************************************************************************)
(* Property updates across scopes                                          *)
(***************************************************************************)
\* the values an expression can yield
ComputedValues == {"a", "b"}

\* tables whose expressions yield a value that depends on the scope
ScopedExpressionTables ==
    [VtableIds -> {[type |-> "f64", value |-> v] : v \in [Scopes -> ComputedValues]}]

\* optional properties: absent, a literal, or backed by an expression
OptionalPropertyInstances ==
    {None} \cup {Some(PropertyInstance(v, "f64")) :
                    v \in {Literal} \cup {<<i>> : i \in VtableIds}}

\* the update of the next optional property of the node; the log holds the
\* vtable ids whose value was computed
UpdateOptionalProperty ==
    /\ ~aborted
    /\ property_cursor <= Len(node_properties)
    /\ \E updated \in {handle_vtable_update_optional(expression_table, node_scope,
                                                      node_properties[property_cursor])} :
          /\ node_properties' =
                [node_properties EXCEPT ![property_cursor] = updated.property]
          /\ aborted' = updated.panic
          /\ property_cursor' =
                IF updated.panic THEN property_cursor ELSE property_cursor + 1
          /\ events' = updated.consulted
    /\ prev_mounted' = mounted_set
    /\ ray' = NoRay
    /\ native_render_queue' = <<>>
    /\ layer_info' = new_layer_info
    /\ UNCHANGED <<rcs, tvars, hvars, rvars, ovars, expression_table, node_scope>>
    /\ UNCHANGED <<tree, repeat_count, frames_elapsed, repeat_expanded_node_cache,
                   mounted_set, marked_for_unmount_set, stack, properties,
                   native_listeners, native_message_queue, evaluated, native_phase>>

\* the node has come into another scope and its properties are updated anew
BeginUpdate ==
    /\ ~aborted
    /\ property_cursor > Len(node_properties)
    /\ node_scope' \in Scopes \ {node_scope}
    /\ property_cursor' = 1
    /\ events' = <<>>
    /\ prev_mounted' = mounted_set
    /\ ray' = NoRay
    /\ native_render_queue' = <<>>
    /\ layer_info' = new_layer_info
    /\ UNCHANGED <<rcs, tvars, hvars, rvars, ovars, expression_table, node_properties>>
    /\ UNCHANGED <<tree, repeat_count, frames_elapsed, repeat_expanded_node_cache,
                   mounted_set, marked_for_unmount_set, stack, properties,
                   native_listeners, native_message_queue, evaluated, native_phase,
                   aborted>>

InitVtable ==
    /\ InitEngine({TreeRootOnly}, OneLayer)
    /\ viewport_tab = ViewportDefault
    /\ layout = default_layout(tree)
    /\ handlers = [i \in DOMAIN tree |-> HandlersDefault]
    /\ expression_table \in ScopedExpressionTables
    /\ node_properties \in [1..MaxProperties -> OptionalPropertyInstances]
    /\ property_cursor = 1
    /\ node_scope = 0
    /\ InitIdle

NextVtable ==
    \/ UpdateOptionalProperty
    \/ BeginUpdate

SpecVtable == InitVtable /\ [][NextVtable]_vars

\* C32: the update of a property that is backed by an expression leaves it
\* holding the value the table yields for its vtable id in the present scope
\* of the node, whatever it held before; the update of a literal and the
\* update of an absent optional property change nothing and compute no value
\* of the table; no other property is touched
C32_ExpressionRecomputedLiteralKept ==
    [][property_cursor' = property_cursor + 1 =>
         \A p \in {node_properties[property_cursor]} :
            \A q \in {node_properties'[property_cursor]} :
               /\ \A i \in DOMAIN node_properties \ {property_cursor} :
                     node_properties'[i] = node_properties[i]
               /\ IF p = None \/ p[1].vtable_id = Literal
                  THEN q = p /\ events' = <<>>
                  ELSE /\ q = Some([p[1] EXCEPT !.value =
                                      expression_table[p[1].vtable_id[1]].value[node_scope]])
                       /\ events' = <<p[1].vtable_id[1]>>]_vars

\* in the second update of the node, in another scope, the first property has
\* been given the value of the new scope, which differs from that of the old;
\* the second still holds the value of the old scope; the third is absent
C32_Witness ==
    /\ node_scope = 1
    /\ property_cursor = 2
    /\ Len(node_properties) >= 3
    /\ node_properties[1] # None
    /\ node_properties[1][1].vtable_id # Literal
    /\ \A e \in {expression_table[node_properties[1][1].vtable_id[1]]} :
          /\ e.value[0] # e.value[1]
          /\ node_properties[1][1].value = e.value[1]
    /\ node_properties[2] # None
    /\ node_properties[2][1].vtable_id # Literal
    /\ \A e \in {expression_table[node_properties[2][1].vtable_id[1]]} :
          /\ e.value[0] # e.value[1]
          /\ node_properties[2][1].value = e.value[0]
    /\ node_properties[3] = None

(***************************************************************************)
(* The discipline of the runtime stack                                     *)
(***************************************************************************)
\* the last operation was a peek
Peeked == "peeked" \in DOMAIN adoptee

\* the frames of the stack that were pushed on top of the frame at position k
PushedOnTopOf(stk, k) == {j \in 1..Len(stk) : stk[j].parent = k}

\* C33: the stack is last in, first out.  A push leaves the frames below
\* alone and links the new frame to the frame that was on top (to none on an
\* empty stack), and the new frame is the one a peek returns; a pop removes
\* exactly the frame a peek returns, so that the frame it was linked to is on
\* top again; a peek changes nothing and returns, on an empty stack, nothing,
\* and otherwise the one frame of the stack no frame was pushed on top of
C33_StackIsLifo ==
    [][/\ Len(stack') = Len(stack) + 1 =>
            \A f \in {stack'[Len(stack')]} :
               /\ SubSeq(stack', 1, Len(stack)) = stack
               /\ peek_stack_frame(stack') = <<f>>
               /\ IF peek_stack_frame(stack) = <<>>
                  THEN f.parent = 0
                  ELSE /\ f.parent \in 1..Len(stack)
                       /\ stack'[f.parent] = peek_stack_frame(stack)[1]
                       /\ PushedOnTopOf(stack, f.parent) = {}
       /\ Len(stack') = Len(stack) - 1 =>
            \A f \in {peek_stack_frame(stack)[1]} :
               /\ stack = Append(stack', f)
               /\ IF f.parent = 0
                  THEN peek_stack_frame(stack') = <<>>
                  ELSE peek_stack_frame(stack') = <<stack[f.parent]>>
       /\ Peeked' =>
            /\ stack' = stack
            /\ IF Len(stack) = 0
               THEN adoptee'.peeked = <<>>
               ELSE \E k \in 1..Len(stack) :
                       /\ adoptee'.peeked = <<stack[k]>>
                       /\ PushedOnTopOf(stack, k) = {}
                       /\ \A j \in 1..Len(stack) \ {k} : PushedOnTopOf(stack, j) # {}
                       /\ \A j \in 1..Len(stack) : stack[j].parent = j - 1]_vars

\* a peek on a stack of two frames returned the second, which is linked to
\* the first
C33_Witness ==
    /\ Peeked
    /\ Len(stack) >= 2
    /\ adoptee.peeked = <<stack[2]>>
    /\ stack[2].parent = 1
    /\ stack[1].parent = 0
    /\ stack[1] # [stack[2] EXCEPT !.parent = 0]

(***************************************************************************)
(* Anchors                                                                 *)
(***************************************************************************)
\* the anchors of a node along one axis: none, in pixels, a share of the
\* node, and both at once
AnchorSizes == {Pixels(0), Pixels(10), Percent(50), Combined(10, 50)}

\* the layouts of root [P [C]] with C half as wide as it is high and
\* anchored along both axes
AnchorLayoutInputs ==
    {(0 :> NodeLayoutDefault) @@ (1 :> NodeLayoutDefault) @@ (2 :> C) :
        C \in {[NodeLayout(Percent(50), Percent(100), Pixels(0), Pixels(0), r)
                   EXCEPT !.anchor = <<ax, ay>>] :
                  ax \in AnchorSizes, ay \in AnchorSizes, r \in QuarterTurns}}

InitAnchor ==
    /\ InitEngine({TreeLayout}, OneLayer)
    /\ viewport_tab = ViewportDefault
    /\ layout \in AnchorLayoutInputs
    /\ InitInputs

\* ticks over an anchored node, under a host that resizes the viewport
NextAnchor ==
    \/ TickSteady
    \/ SetViewportSize

SpecAnchor == InitAnchor /\ [][NextAnchor]_vars

\* the anchor evaluated against a length of the node itself
AnchorAgainst(size, length) ==
    IF size.unit = "Pixels" THEN size.n
    ELSE IF size.unit = "Percent" THEN (length * size.n) \div 100
    ELSE size.n + (length * size.per) \div 100

\* C34: the transform a node accumulated in the tick is the transform of the
\* same node without anchor, followed by the translation by minus the anchor,
\* where the anchor along x is evaluated against the width of the node and
\* the anchor along y against its height, for an anchor in pixels, in
\* percent, and in both
C34_AnchorOfOwnSize ==
    JustTicked =>
       \A k \in 1..Len(repeat_expanded_node_cache) :
          \A node \in {layout[repeat_expanded_node_cache[k].instance_node[1]]} :
             \A container_tab \in {container_tab_of(repeat_expanded_node_cache,
                                      repeat_expanded_node_cache[k].parent_repeat_expanded_node)} :
                \A size \in {repeat_expanded_node_cache[k].tab.bounds} :
                   repeat_expanded_node_cache[k].tab.transform =
                      affine_mul(
                         compute_tab([node EXCEPT !.anchor = <<Pixels(0), Pixels(0)>>],
                                     container_tab).transform,
                         affine_translate(0 - AnchorAgainst(node.anchor[1], size[1]),
                                          0 - AnchorAgainst(node.anchor[2], size[2])))

(***************************************************************************)
(* The layout pass over the expanded tree.  The expanded nodes are those   *)
(* of the cache, each the child of the node its parent link names; the     *)
(* pass writes its results into the expanded nodes.                        *)
(***************************************************************************)
\* ExpandedNode::get_children_expanded_nodes: the children in the order in
\* which they were attached
get_children_expanded_nodes(cache, k) ==
    LET children == {j \in 1..Len(cache) : cache[j].parent_repeat_expanded_node = k}
    IN [i \in 1..Cardinality(children) |->
           CHOOSE j \in children : Cardinality({x \in children : x < j}) = i - 1]

\* layout.rs manage_handlers_mount
manage_handlers_mount(st, current) ==
    LET id_chain == st.cache[current].id_chain
        instance_node == st.cache[current].instance_node
    IN IF id_chain \notin st.mounted_set
       THEN [st EXCEPT
                !.events = IF tree[instance_node[1]].registry
                           THEN Append(@, [ev |-> "mount_handlers", chain |-> id_chain])
                           ELSE @,
                !.mounted_set = @ \cup {id_chain}]
       ELSE st

\* faulty variant: every child draws from a copy of the generator
RECURSIVE recurse_compute_layout_gen_by_value(_, _, _)
recurse_compute_layout_gen_by_value(st, current_expanded_node, container_tab) ==
    LET current_z_index == st.z_index_gen
        computed_tab ==
            compute_tab(layout[st.cache[current_expanded_node].instance_node[1]],
                        container_tab)
        written ==
            [st EXCEPT
                !.z_index_gen = @ + 1,
                !.events = Append(@, [ev |-> "compute_layout",
                                      chain |-> st.cache[current_expanded_node].id_chain,
                                      node |-> current_expanded_node]),
                !.cache[current_expanded_node] =
                    [id_chain |-> @.id_chain, tab |-> @.tab,
                     parent_repeat_expanded_node |-> @.parent_repeat_expanded_node,
                     instance_node |-> @.instance_node, stack_frame |-> @.stack_frame,
                     computed_z_index |-> current_z_index,
                     computed_tab |-> computed_tab,
                     computed_node_context |->
                         [frames_elapsed |-> frames_elapsed,
                          bounds_parent |-> container_tab.bounds,
                          bounds_self |-> computed_tab.bounds]]]
        mounted == manage_handlers_mount(written, current_expanded_node)
        children == get_children_expanded_nodes(st.cache, current_expanded_node)
        RECURSIVE over(_, _)
        over(s, i) ==
            IF i > Len(children) THEN s
            ELSE over([recurse_compute_layout_gen_by_value(s, children[i], computed_tab)
                          EXCEPT !.z_index_gen = s.z_index_gen], i + 1)
    IN over(mounted, 1)

\* layout.rs recurse_compute_layout
RECURSIVE recurse_compute_layout(_, _, _)
recurse_compute_layout(st, current_expanded_node, container_tab) ==
    LET current_z_index == st.z_index_gen
        computed_tab ==
            compute_tab(layout[st.cache[current_expanded_node].instance_node[1]],
                        container_tab)
        written ==
            [st EXCEPT
                !.z_index_gen = @ + 1,
                !.events = Append(@, [ev |-> "compute_layout",
                                      chain |-> st.cache[current_expanded_node].id_chain,
                                      node |-> current_expanded_node]),
                !.cache[current_expanded_node] =
                    [id_chain |-> @.id_chain, tab |-> @.tab,
                     parent_repeat_expanded_node |-> @.parent_repeat_expanded_node,
                     instance_node |-> @.instance_node, stack_frame |-> @.stack_frame,
                     computed_z_index |-> current_z_index,
                     computed_tab |-> computed_tab,
                     computed_node_context |->
                         [frames_elapsed |-> frames_elapsed,
                          bounds_parent |-> container_tab.bounds,
                          bounds_self |-> computed_tab.bounds]]]
        mounted == manage_handlers_mount(written, current_expanded_node)
        children == get_children_expanded_nodes(st.cache, current_expanded_node)
        RECURSIVE over(_, _)
        over(s, i) ==
            IF i > Len(children) THEN s
            ELSE over(recurse_compute_layout(s, children[i], computed_tab), i + 1)
    IN over(mounted, 1)

\* the layout pass over the expanded tree the last tick left, from its root,
\* under the viewport, with a generator that starts at 0
ComputeLayout ==
    /\ ~aborted
    /\ Len(repeat_expanded_node_cache) > 0
    /\ \E done \in {recurse_compute_layout(
                       [cache |-> repeat_expanded_node_cache, z_index_gen |-> 0,
                        mounted_set |-> mounted_set, events |-> <<>>],
                       1, TransformAndBounds(AffineDefault, viewport_tab))} :
          /\ repeat_expanded_node_cache' = done.cache
          /\ mounted_set' = done.mounted_set
          /\ events' = done.events
    /\ prev_mounted' = mounted_set
    /\ ray' = NoRay
    /\ native_render_queue' = <<>>
    /\ layer_info' = new_layer_info
    /\ UNCHANGED <<rcs, tvars, pvars, hvars, rvars, ovars>>
    /\ UNCHANGED <<tree, repeat_count, frames_elapsed, marked_for_unmount_set, stack,
                   aborted, properties, native_listeners, native_message_queue,
                   evaluated, native_phase>>

InitComputeLayout ==
    /\ InitEngine({TreeClip, TreeMixed, TreeLayout}, OneLayer)
    /\ viewport_tab = ViewportDefault
    /\ layout \in IF tree = TreeLayout THEN CullLayoutInputs ELSE {default_layout(tree)}
    /\ InitInputs

\* ticks that expand the tree, a host that flags instances, and layout
\* passes over what was expanded
NextComputeLayout ==
    \/ TickSteady
    \/ MarkForUnmount
    \/ ComputeLayout

SpecComputeLayout == InitComputeLayout /\ [][NextComputeLayout]_vars

\* the last operation was a layout pass
LaidOut == Len(events) > 0 /\ events[1].ev = "compute_layout"

\* the expanded nodes in the order in which the pass visited them
LayoutVisits ==
    LET at == {e \in 1..Len(events) : events[e].ev = "compute_layout"}
    IN [i \in 1..Cardinality(at) |->
           events[CHOOSE e \in at : Cardinality({x \in at : x < e}) = i - 1].node]

\* the expanded nodes beneath the node at position k
DescendantsOf(cache, k) ==
    {j \in 1..Len(cache) : j # k /\ k \in SelfAndAncestors(cache, j)}

\* C35: one layout pass visits every expanded node of the tree exactly once,
\* a node before its subtree, the whole subtree before anything else, and
\* siblings in the order of the children list; it writes into every node its
\* z-index, its computed tab and its node context; the z-indices are
\* pairwise distinct and increase strictly in the order of the visits, so
\* that the z-index of a node is smaller than that of each of its descendants
C35_LayoutPassPreOrder ==
    LaidOut =>
       \A cache \in {repeat_expanded_node_cache}, order \in {LayoutVisits} :
          /\ Len(order) = Len(cache)
          /\ \A k \in 1..Len(cache) : \E i \in 1..Len(order) : order[i] = k
          /\ order[1] = 1
          /\ \A i \in 1..Len(order) :
                /\ {order[j] : j \in (i + 1)..(i + Cardinality(DescendantsOf(cache, order[i])))}
                      = DescendantsOf(cache, order[i])
                /\ \A j \in 1..Len(order) :
                      (/\ i < j
                       /\ cache[order[i]].parent_repeat_expanded_node
                             = cache[order[j]].parent_repeat_expanded_node)
                         => order[i] < order[j]
                /\ \A j \in 1..Len(order) :
                      i < j => cache[order[i]].computed_z_index
                                  < cache[order[j]].computed_z_index
          /\ \A k \in 1..Len(cache) :
                \A container_tab \in
                      {IF cache[k].parent_repeat_expanded_node = 0
                       THEN TransformAndBounds(AffineDefault, viewport_tab)
                       ELSE cache[cache[k].parent_repeat_expanded_node].computed_tab} :
                   /\ cache[k].computed_tab
                         = compute_tab(layout[cache[k].instance_node[1]], container_tab)
                   /\ cache[k].computed_node_context
                         = [frames_elapsed |-> frames_elapsed,
                            bounds_parent |-> container_tab.bounds,
                            bounds_self |-> cache[k].computed_tab.bounds]
                   /\ \A d \in DescendantsOf(cache, k) :
                         cache[k].computed_z_index < cache[d].computed_z_index
                   /\ \A j \in 1..Len(cache) :
                         j # k => cache[j].computed_z_index # cache[k].computed_z_index

\* a pass over a tree in which a node with a child is followed by a sibling:
\* the child was numbered before the sibling
C35_Witness ==
    /\ LaidOut
    /\ \E k, c, s \in 1..Len(repeat_expanded_node_cache) :
          /\ repeat_expanded_node_cache[c].parent_repeat_expanded_node = k
          /\ repeat_expanded_node_cache[s].parent_repeat_expanded_node
                = repeat_expanded_node_cache[k].parent_repeat_expanded_node
          /\ repeat_expanded_node_cache[k].computed_z_index
                < repeat_expanded_node_cache[c].computed_z_index
          /\ repeat_expanded_node_cache[c].computed_z_index
                < repeat_expanded_node_cache[s].computed_z_index

(***************************************************************************)
(* The manifest version and the order of the command ids                   *)
(***************************************************************************)
\* C36: the manifest version goes up by one with every command that
\* executes and with every undo and redo that applies a command, and by
\* nothing else in these operations: an execute_command raises it by one, an
\* undo, a redo, an undo_until and a redo_including by the number of commands
\* they moved from one stack to the other
C36_VersionCountsOperations ==
    [][/\ undone'.op = "execute_command" => manifest_version' = manifest_version + 1
       /\ undone'.op \in {"undo", "undo_until"} =>
             manifest_version' = manifest_version + Len(undone'.ids)
       /\ undone'.op \in {"redo", "redo_including"} =>
             manifest_version' = manifest_version + (Len(undo_stack') - Len(undo_stack))]_vars

\* the ids of the undo stack from its bottom, then those of the redo stack
\* from its top
UndoThenRedo ==
    undo_stack \o [k \in 1..Len(redo_stack) |-> redo_stack[Len(redo_stack) + 1 - k]]

\* the last operation was a redo_including in which no redo failed
RedidIncluding ==
    /\ undone.op = "redo_including"
    /\ ~undone.err

\* C40: whatever commands were executed, undone and redone, the ids of the
\* undo stack from bottom to top followed by the ids of the redo stack from
\* top to bottom increase strictly, every one of them is below
\* next_command_id, no id is on both stacks, and the execution of a command
\* that can be undone leaves the redo stack empty
C40_StackIdsIncrease ==
    \A ids \in {UndoThenRedo} :
       /\ \A j, k \in 1..Len(ids) : j < k => ids[j] < ids[k]
       /\ \A k \in 1..Len(ids) : ids[k] < next_command_id
       /\ Stacked(undo_stack) \cap Stacked(redo_stack) = {}
       /\ (/\ undone.op = "execute_command"
           /\ Len(undo_stack) > Len(undone.before)) => redo_stack = <<>>

\* a redo_including brought back the older of two undone commands and left
\* the newer on the redo stack
C40_Witness ==
    /\ RedidIncluding
    /\ Len(undo_stack) >= 2
    /\ Len(undo_stack) = Len(undone.before) + 1
    /\ undo_stack[Len(undo_stack)] = undone.command_id[1]
    /\ Len(redo_stack) >= 1

(***************************************************************************)
(* The context every child starts from                                     *)
(***************************************************************************)
\* the layouts of root [Z, Frame [Group [X]]]: every node half as wide as
\* its container, moved or not, the Frame turned or not
ContextLayoutInputs ==
    {(0 :> NodeLayoutDefault) @@ (1 :> Z) @@ (2 :> F) @@ (3 :> G) @@ (4 :> X) :
        Z \in {NodeLayout(Percent(50), Percent(100), Pixels(dx), Pixels(0), 0) :
                  dx \in {0, MaxOffset}},
        F \in {NodeLayout(Percent(50), Percent(100), Pixels(dx), Pixels(0), r) :
                  dx \in {0, MaxOffset}, r \in QuarterTurns},
        G \in {NodeLayout(Percent(50), Percent(100), Pixels(0), Pixels(dy), 0) :
                  dy \in {0, MaxOffset}},
        X \in {NodeLayout(Percent(50), Percent(100), Pixels(dx), Pixels(0), 0) :
                  dx \in {0, MaxOffset}}}

InitContext ==
    /\ InitEngine({TreeClip}, OneLayer)
    /\ viewport_tab = ViewportDefault
    /\ layout \in ContextLayoutInputs
    /\ InitInputs

\* ticks over a tree with siblings and nested children, under a host that
\* resizes the viewport
NextContext ==
    \/ TickSteady
    \/ SetViewportSize

SpecContext == InitContext /\ [][NextContext]_vars

\* C37: the traversal of a child changes nothing of the context its parent
\* and its later siblings use: every child of a node, whatever was traversed
\* before it, is linked to the expanded node of its parent and is laid out
\* under the transform and the bounds the parent's own layout step wrote,
\* and the root under the viewport
C37_ChildrenShareParentContext ==
    JustTicked =>
       \A visits \in {Visits(events)}, cache \in {repeat_expanded_node_cache} :
          \A v \in visits :
             /\ \A w \in DirectChildren(visits, v) :
                   /\ cache[IndexOf(w)].parent_repeat_expanded_node = IndexOf(v)
                   /\ cache[IndexOf(w)].tab =
                         compute_tab(layout[cache[IndexOf(w)].instance_node[1]],
                                     cache[IndexOf(v)].tab)
             /\ (~\E u \in visits : v \in DirectChildren(visits, u)) =>
                   /\ cache[IndexOf(v)].parent_repeat_expanded_node = 0
                   /\ cache[IndexOf(v)].tab =
                         compute_tab(layout[cache[IndexOf(v)].instance_node[1]],
                                     TransformAndBounds(AffineDefault, viewport_tab))

\* the root has two children; the one traversed first has a moved child of
\* its own beneath a turned Frame, and the one traversed after that subtree
\* is laid out under the root, moved by its own offset only
C37_Witness ==
    /\ JustTicked
    /\ Len(repeat_expanded_node_cache) = 5
    /\ layout[2].rotate = 1
    /\ layout[3].y = Pixels(MaxOffset)
    /\ layout[1].x = Pixels(MaxOffset)
    /\ repeat_expanded_node_cache[5].instance_node[1] = 1
    /\ repeat_expanded_node_cache[5].parent_repeat_expanded_node = 1
    /\ repeat_expanded_node_cache[4].parent_repeat_expanded_node = 3
    /\ repeat_expanded_node_cache[5].tab.transform = affine_translate(MaxOffset, 0)
    /\ repeat_expanded_node_cache[4].tab.transform # repeat_expanded_node_cache[1].tab.transform

(***************************************************************************)
(* Layers the host added                                                   *)
(***************************************************************************)
InitLayerAdd == InitOver(LayerTrees, OneLayer)

\* ticks of an engine built with one render context, under a host that
\* allocates what a layer request asks for
NextLayerAdd ==
    \/ TickSteady
    \/ MarkForUnmount
    \/ NativeInterrupt
    \/ AddLayers

SpecLayerAdd == InitLayerAdd /\ [][NextLayerAdd]_vars

\* the calls of a log that computed native patches
PatchCalls(log) == {e \in 1..Len(log) : log[e].ev = "compute_native_patches"}

\* C38: the layers a tick asks for, once the host has appended as many
\* render contexts, cover the layer depth the tick discovered; the host
\* appends what was asked for; and a tick that discovers a depth the render
\* contexts cover asks for no layer and draws every node on the context of
\* its own depth, none on the last one as a fallback
C38_AddedLayersSuffice ==
    [][/\ (TickStep /\ TickCompleted) =>
             \A k \in LayerAdds(native_render_queue') :
                get_depth(layer_info') < rcs + native_render_queue'[k].num_layers_to_add
       /\ rcs' # rcs =>
             \E k \in LayerAdds(native_render_queue) :
                rcs' = rcs + native_render_queue[k].num_layers_to_add
       /\ (TickStep /\ TickCompleted /\ get_depth(layer_info') < rcs) =>
             /\ LayerAdds(native_render_queue') = {}
             /\ \A e \in PatchCalls(events') :
                   /\ events'[e].depth < rcs
                   /\ events'[e].layer = events'[e].depth]_vars

\* the engine was built with one render context, a tick asked for a second,
\* the host added it, and the next tick over root [A, Dropdown, B] asked for
\* nothing and drew a node on the second context
C38_Witness ==
    /\ JustTicked
    /\ tree = TreeLayers
    /\ rcs = 2
    /\ get_depth(layer_info) = 1
    /\ LayerAdds(native_render_queue) = {}
    /\ \E e \in PatchCalls(events) : events[e].layer = 1 /\ events[e].depth = 1

(***************************************************************************)
(* Leaving the mounted set                                                 *)
(***************************************************************************)
\* the positions of a log at which a visit of the id_chain opens
VisitsOf(log, chain) ==
    {k \in 1..Len(log) : log[k] = [ev |-> "compute_properties", chain |-> chain]}

\* C39: will-unmount fires for an id_chain only while the id_chain is
\* mounted; an id_chain leaves the mounted set only in a tick that visits it
\* and fires its will-unmount in that visit; and an id_chain that is mounted
\* and is not visited stays mounted, whether or not its instance is flagged
\* and whatever becomes of the flags
C39_UnmountOnlyWhenVisited ==
    [][/\ \A k \in 1..Len(events') :
             events'[k].ev = "will_unmount" =>
                \A marks \in {{j \in 1..(k - 1) :
                                  /\ events'[j].chain = events'[k].chain
                                  /\ events'[j].ev \in {"did_mount", "will_unmount"}}} :
                   IF marks = {} THEN events'[k].chain \in mounted_set
                   ELSE \E j \in marks : /\ \A i \in marks : i <= j
                                          /\ events'[j].ev = "did_mount"
       /\ \A c \in mounted_set \ mounted_set' :
             \E k \in 1..Len(events') :
                /\ events'[k] = [ev |-> "will_unmount", chain |-> c]
                /\ \E j \in VisitsOf(events', c) : j < k
       /\ \A visited \in {{events'[k].chain : k \in VisitStarts(events')}} :
             mounted_set \ visited \subseteq mounted_set']_vars

\* a tick over root [Component [A], Repeat { B }] fired the will-unmount of
\* the first expansion of the flagged B and did not visit the second, which
\* is mounted still, with no flag left
C39_Witness ==
    /\ JustTicked
    /\ tree = TreeMixed
    /\ \E k \in 1..Len(events) : events[k] = [ev |-> "will_unmount", chain |-> <<5, 0>>]
    /\ \A k \in 1..Len(events) : events[k].chain # <<5, 1>>
    /\ <<5, 1>> \in mounted_set
    /\ <<5, 0>> \notin mounted_set
    /\ marked_for_unmount_set = {}

====
